---- MODULE Spec2Model ----
(***************************************************************************)
(* The parsing machine of pe (src/pe/_cy_machine.pyx): the compiler from   *)
(* operator trees to instruction programs, the scanners, and the machine   *)
(* that runs a program against an input string.                            *)
(*                                                                         *)
(* Strings are sequences of one-character strings.  Addresses, positions   *)
(* and slice indices are 0-based as in the source; TLA+ sequences are      *)
(* 1-based, so element k of a Python list is element k+1 here.             *)
(***************************************************************************)
EXTENDS Integers, Sequences, FiniteSets, TLC

FAILURE == -1

\* The value a cdef function declared "except -2" returns when it raises.
RAISED == -2

(***************************************************************************)
(* Python sequence primitives                                              *)
(***************************************************************************)

\* Code point of a character (Py_UCS4 comparison in CharacterClass._scan).
Ord(c) ==
    CASE c = "!" -> 33
      [] c = "." -> 46
      [] c = "0" -> 48
      [] c = "1" -> 49
      [] c = "2" -> 50
      [] c = "4" -> 52
      [] c = "9" -> 57
      [] c = "[" -> 91
      [] c = "]" -> 93
      [] c = "a" -> 97
      [] c = "b" -> 98
      [] c = "c" -> 99
      [] c = "d" -> 100
      [] c = "z" -> 122

\* A slice bound i of a sequence of length n, as Python normalises it.
Clamp(i, n) ==
    IF i < 0
    THEN (IF i + n < 0 THEN 0 ELSE i + n)
    ELSE (IF i > n THEN n ELSE i)

\* q[lo:hi]
PySlice(q, lo, hi) ==
    LET a == Clamp(lo, Len(q))
        b == Clamp(hi, Len(q))
    IN  IF a < b THEN SubSeq(q, a + 1, b) ELSE << >>

\* q[lo:]
PyTail(q, lo) == PySlice(q, lo, Len(q))

\* q[lo:] = new
PySetTail(q, lo, new) == SubSeq(q, 1, Clamp(lo, Len(q))) \o new

\* x in q
PyIn(x, q) == \E k \in 1..Len(q) : q[k] = x

(***************************************************************************)
(* Scanners                                                                *)
(***************************************************************************)

NoScanner ==
    [kind |-> "None", x |-> << >>, chars |-> << >>, ranges |-> << >>,
     negate |-> FALSE, mincount |-> 0, maxcount |-> 0]

Dot == [NoScanner EXCEPT !.kind = "Dot"]

Literal(x) == [NoScanner EXCEPT !.kind = "Literal", !.x = x]

RECURSIVE JoinChars(_)
\* ''.join(a for a, b in ranges if not b)
JoinChars(ranges) ==
    IF ranges = << >> THEN << >>
    ELSE (IF Head(ranges)[2] = "" THEN <<Head(ranges)[1]>> ELSE << >>)
         \o JoinChars(Tail(ranges))

RECURSIVE JoinRanges(_)
\* ''.join(a+b for a, b in ranges if b)
JoinRanges(ranges) ==
    IF ranges = << >> THEN << >>
    ELSE (IF Head(ranges)[2] # "" THEN <<Head(ranges)[1], Head(ranges)[2]>>
          ELSE << >>)
         \o JoinRanges(Tail(ranges))

CharacterClass(ranges, negate, mincount, maxcount) ==
    [kind |-> "Class", x |-> << >>,
     chars |-> JoinChars(ranges), ranges |-> JoinRanges(ranges),
     negate |-> negate, mincount |-> mincount, maxcount |-> maxcount]

\* Dot._scan with the end of the input accepted as a character.
Dot_scan_Inclusive(s, pos, slen) == IF pos <= slen THEN pos + 1 ELSE FAILURE

Dot_scan(s, pos, slen) == IF pos < slen THEN pos + 1 ELSE FAILURE

\* Literal._scan comparing only as many characters as the input has left:
\* not self._x.startswith(s[pos:end]).
Literal_scan_Prefix(sc, s, pos, slen) ==
    LET end == pos + Len(sc.x)
        rest == PySlice(s, pos, end)
    IN  IF rest # PySlice(sc.x, 0, Len(rest)) THEN FAILURE ELSE end

Literal_scan(sc, s, pos, slen) ==
    LET end == pos + Len(sc.x)
    IN  IF PySlice(s, pos, end) # sc.x THEN FAILURE ELSE end

RECURSIVE RangeSearch(_, _, _)
\* The inner while loop of CharacterClass._scan, entered with index i: the
\* index it stops at and whether it stopped on a range holding c.
RangeSearch(ranges, c, i) ==
    IF i < Len(ranges)
    THEN IF Ord(ranges[i + 1]) <= Ord(c) /\ Ord(c) <= Ord(ranges[i + 2])
         THEN [i |-> i, matched |-> TRUE]
         ELSE RangeSearch(ranges, c, i + 2)
    ELSE [i |-> i, matched |-> FALSE]

RECURSIVE ClassLoop(_, _, _, _, _, _, _)
\* The outer while loop of CharacterClass._scan and the code after it.  The
\* range index i is initialised once per call and carried from one
\* character to the next.
ClassLoop(sc, s, pos, slen, i, mincount, maxcount) ==
    IF maxcount # 0 /\ pos < slen
    THEN IF pos < 0 /\ pos + slen < 0
         THEN RAISED
         ELSE LET c == IF pos < 0 THEN s[pos + slen + 1] ELSE s[pos + 1]
                  r == IF PyIn(c, sc.chars)
                       THEN [i |-> i, matched |-> TRUE]
                       ELSE RangeSearch(sc.ranges, c, i)
              IN  IF r.matched # sc.negate
                  THEN ClassLoop(sc, s, pos + 1, slen, r.i,
                                 mincount - 1, maxcount - 1)
                  ELSE (IF mincount > 0 THEN FAILURE ELSE pos)
    ELSE (IF mincount > 0 THEN FAILURE ELSE pos)

\* CharacterClass._scan without the test of mincount after the loop.
CharacterClass_scan_NoMin(sc, s, pos, slen) ==
    ClassLoop(sc, s, pos, slen, 0, 0, sc.maxcount)

CharacterClass_scan(sc, s, pos, slen) ==
    ClassLoop(sc, s, pos, slen, 0, sc.mincount, sc.maxcount)

\* instr.scanner._scan(s, pos, slen)
Scan(sc, s, pos, slen) ==
    CASE sc.kind = "Dot" -> Dot_scan(s, pos, slen)
      [] sc.kind = "Literal" -> Literal_scan(sc, s, pos, slen)
      [] sc.kind = "Class" -> CharacterClass_scan(sc, s, pos, slen)
      [] OTHER -> FAILURE

(***************************************************************************)
(* Operator trees and actions                                              *)
(***************************************************************************)

NoAction == [kind |-> "None", name |-> ""]
BindAction(name) == [kind |-> "Bind", name |-> name]
Func(name) == [kind |-> "Func", name |-> name]

Defn(op) ==
    [op |-> op, x |-> << >>, ranges |-> << >>, neg |-> FALSE,
     kids |-> << >>, name |-> "", action |-> NoAction]

DOT == Defn("DOT")
LIT(x) == [Defn("LIT") EXCEPT !.x = x]
CLS(ranges, neg) == [Defn("CLS") EXCEPT !.ranges = ranges, !.neg = neg]
OPT(e) == [Defn("OPT") EXCEPT !.kids = <<e>>]
STR(e) == [Defn("STR") EXCEPT !.kids = <<e>>]
PLS(e) == [Defn("PLS") EXCEPT !.kids = <<e>>]
SYM(name) == [Defn("SYM") EXCEPT !.name = name]
AND(e) == [Defn("AND") EXCEPT !.kids = <<e>>]
NOT(e) == [Defn("NOT") EXCEPT !.kids = <<e>>]
CAP(e) == [Defn("CAP") EXCEPT !.kids = <<e>>]
BND(name, e) == [Defn("BND") EXCEPT !.kids = <<e>>, !.name = name]
SEQ(es) == [Defn("SEQ") EXCEPT !.kids = es]
CHC(es) == [Defn("CHC") EXCEPT !.kids = es]
RUL(e, action) == [Defn("RUL") EXCEPT !.kids = <<e>>, !.action = action]

(***************************************************************************)
(* Instructions.  Instruction objects live in a heap (a sequence; an       *)
(* object's identity is its index) because the compiler mutates            *)
(* instructions in place and a list may hold one object more than once.    *)
(***************************************************************************)

Instruction(opcode, oploc, scanner, marking, capturing, action, name) ==
    [opcode |-> opcode, oploc |-> oploc, scanner |-> scanner,
     marking |-> marking, capturing |-> capturing, action |-> action,
     name |-> name]

Ins(opcode, oploc) ==
    Instruction(opcode, oploc, NoScanner, FALSE, FALSE, NoAction, "")

NO_CAP_OR_ACT == {"CALL", "COMMIT", "UPDATE", "RESTORE", "FAILTWICE", "RETURN"}

\* A list of one freshly allocated instruction.
One(heap, instr) == [pis |-> <<Len(heap) + 1>>, heap |-> Append(heap, instr)]

\* Each function below compiles one operator.  Every one of them starts
\* by compiling its operands, in order; here the caller does that and
\* passes the result r: r.lists[k] is _parsing_instructions(operand k) and
\* r.heap the heap after compiling the operands (the heap itself when the
\* operator has none).

_dot(defn, r) ==
    One(r.heap, [Ins("SCAN", 1) EXCEPT !.scanner = Dot])

_lit(defn, r) ==
    One(r.heap, [Ins("SCAN", 1) EXCEPT !.scanner = Literal(defn.x)])

_cls(defn, r) ==
    One(r.heap, [Ins("SCAN", 1) EXCEPT
                   !.scanner = CharacterClass(defn.ranges, defn.neg, 1, 1)])

_sym(defn, r) ==
    One(r.heap, [Ins("CALL", 1) EXCEPT !.name = defn.name])

_opt(defn, r) ==
    LET pis == r.lists[1]
        h1 == Append(r.heap, Ins("BRANCH", Len(pis) + 2))
        h2 == Append(h1, Ins("COMMIT", 1))
    IN  [pis |-> <<Len(h1)>> \o pis \o <<Len(h2)>>, heap |-> h2]

\* The last return of _rpt: mincount copies of the operand, then the loop.
_rpt_loop(defn, mincount, r) ==
    LET pis == r.lists[1]
        h1 == Append(r.heap, Ins("BRANCH", Len(pis) + 2))
        h2 == Append(h1, Ins("UPDATE", -Len(pis)))
    IN  [pis |-> (IF mincount = 1 THEN pis ELSE << >>)
                 \o <<Len(h1)>> \o pis \o <<Len(h2)>>,
         heap |-> h2]

_rpt(defn, mincount, r) ==
    LET pis == r.lists[1]
        first == r.heap[pis[1]]
    IN  IF /\ Len(pis) = 1
           /\ first.opcode = "SCAN"
           /\ first.scanner.kind = "Class"
           /\ ~(first.marking \/ first.capturing)
           /\ first.action = NoAction
        THEN LET sc == [first.scanner EXCEPT !.mincount = mincount,
                                             !.maxcount = -1]
                 h1 == [r.heap EXCEPT ![pis[1]].scanner = sc]
             IN  One(h1, Instruction("SCAN", 1, sc, first.marking,
                                     first.capturing, first.action, ""))
        ELSE _rpt_loop(defn, mincount, r)

_str(defn, r) == _rpt(defn, 0, r)

_pls(defn, r) == _rpt(defn, 1, r)

_and(defn, r) ==
    LET pis == r.lists[1]
        h1 == Append(r.heap, Ins("BRANCH", Len(pis) + 2))
        h2 == Append(h1, Ins("RESTORE", 2))
        h3 == Append(h2, Ins("FAIL", 1))
    IN  [pis |-> <<Len(h1)>> \o pis \o <<Len(h2), Len(h3)>>, heap |-> h3]

_not(defn, r) ==
    LET pis == r.lists[1]
        h1 == Append(r.heap, Ins("BRANCH", Len(pis) + 2))
        h2 == Append(h1, Ins("FAILTWICE", 1))
    IN  [pis |-> <<Len(h1)>> \o pis \o <<Len(h2)>>, heap |-> h2]

\* The head of _cap and of _rul: mark the first instruction, or put a
\* marking NOOP before it when it is marking already.
MarkHead(pis, heap) ==
    IF ~heap[pis[1]].marking
    THEN [pis |-> pis, heap |-> [heap EXCEPT ![pis[1]].marking = TRUE]]
    ELSE [pis |-> <<Len(heap) + 1>> \o pis,
          heap |-> Append(heap, [Ins("NOOP", 1) EXCEPT !.marking = TRUE])]

\* _cap without the captured_choice test.
_cap_NoChoiceTest(defn, r) ==
    LET m == MarkHead(r.lists[1], r.heap)
        last == m.pis[Len(m.pis)]
        tail == m.heap[last]
    IN  IF /\ ~tail.capturing
           /\ tail.action = NoAction
           /\ tail.opcode \notin NO_CAP_OR_ACT
        THEN [pis |-> m.pis, heap |-> [m.heap EXCEPT ![last].capturing = TRUE]]
        ELSE [pis |-> Append(m.pis, Len(m.heap) + 1),
              heap |-> Append(m.heap,
                              [Ins("NOOP", 1) EXCEPT !.capturing = TRUE])]

_cap(defn, r) ==
    LET captured_choice == defn.kids[1].op = "CHC"
        m == MarkHead(r.lists[1], r.heap)
        last == m.pis[Len(m.pis)]
        tail == m.heap[last]
    IN  IF /\ ~tail.capturing
           /\ tail.action = NoAction
           /\ tail.opcode \notin NO_CAP_OR_ACT
           /\ ~captured_choice
        THEN [pis |-> m.pis, heap |-> [m.heap EXCEPT ![last].capturing = TRUE]]
        ELSE [pis |-> Append(m.pis, Len(m.heap) + 1),
              heap |-> Append(m.heap,
                              [Ins("NOOP", 1) EXCEPT !.capturing = TRUE])]

\* _rul without the test of the last instruction's opcode.
_rul_NoOpcodeTest(defn, r) ==
    IF defn.action = NoAction THEN [pis |-> r.lists[1], heap |-> r.heap]
    ELSE LET m == MarkHead(r.lists[1], r.heap)
             last == m.pis[Len(m.pis)]
             tail == m.heap[last]
         IN  IF tail.action = NoAction
             THEN [pis |-> m.pis,
                   heap |-> [m.heap EXCEPT ![last].action = defn.action]]
             ELSE [pis |-> Append(m.pis, Len(m.heap) + 1),
                   heap |-> Append(m.heap,
                              [Ins("NOOP", 1) EXCEPT !.action = defn.action])]

_rul(defn, r) ==
    IF defn.action = NoAction THEN [pis |-> r.lists[1], heap |-> r.heap]
    ELSE LET m == MarkHead(r.lists[1], r.heap)
             last == m.pis[Len(m.pis)]
             tail == m.heap[last]
         IN  IF tail.action = NoAction /\ tail.opcode \notin NO_CAP_OR_ACT
             THEN [pis |-> m.pis,
                   heap |-> [m.heap EXCEPT ![last].action = defn.action]]
             ELSE [pis |-> Append(m.pis, Len(m.heap) + 1),
                   heap |-> Append(m.heap,
                              [Ins("NOOP", 1) EXCEPT !.action = defn.action])]

_bnd(defn, r) == _rul(RUL(defn.kids[1], BindAction(defn.name)), r)

RECURSIVE Flatten(_)
Flatten(lists) ==
    IF lists = << >> THEN << >> ELSE Head(lists) \o Flatten(Tail(lists))

_seq(defn, r) == [pis |-> Flatten(r.lists), heap |-> r.heap]

RECURSIVE ChcFold_LongCommit(_, _, _, _)
\* ChcFold with each COMMIT jumping one instruction too far.
ChcFold_LongCommit(lists, k, alt, heap) ==
    IF k = 0 THEN [pis |-> alt, heap |-> heap]
    ELSE LET h1 == Append(heap, Ins("BRANCH", Len(lists[k]) + 2))
             h2 == Append(h1, Ins("COMMIT", Len(alt) + 2))
         IN  ChcFold_LongCommit(lists, k - 1,
                     <<Len(h1)>> \o lists[k] \o <<Len(h2)>> \o alt, h2)

RECURSIVE ChcFold(_, _, _, _)
\* The loop of _chc over reversed(pis[:-1]); k is the alternative to wrap
\* around alt next.
ChcFold(lists, k, alt, heap) ==
    IF k = 0 THEN [pis |-> alt, heap |-> heap]
    ELSE LET h1 == Append(heap, Ins("BRANCH", Len(lists[k]) + 2))
             h2 == Append(h1, Ins("COMMIT", Len(alt) + 1))
         IN  ChcFold(lists, k - 1,
                     <<Len(h1)>> \o lists[k] \o <<Len(h2)>> \o alt, h2)

_chc(defn, r) ==
    ChcFold(r.lists, Len(r.lists) - 1, r.lists[Len(r.lists)], r.heap)

\* _op_map[defn.op](defn), given the compiled operands.
Emit(defn, r) ==
    CASE defn.op = "DOT" -> _dot(defn, r)
      [] defn.op = "LIT" -> _lit(defn, r)
      [] defn.op = "CLS" -> _cls(defn, r)
      [] defn.op = "OPT" -> _opt(defn, r)
      [] defn.op = "STR" -> _str(defn, r)
      [] defn.op = "PLS" -> _pls(defn, r)
      [] defn.op = "SYM" -> _sym(defn, r)
      [] defn.op = "AND" -> _and(defn, r)
      [] defn.op = "NOT" -> _not(defn, r)
      [] defn.op = "CAP" -> _cap(defn, r)
      [] defn.op = "BND" -> _bnd(defn, r)
      [] defn.op = "SEQ" -> _seq(defn, r)
      [] defn.op = "CHC" -> _chc(defn, r)
      [] defn.op = "RUL" -> _rul(defn, r)

RECURSIVE _parsing_instructions(_, _)
RECURSIVE EachPis(_, _)

\* [_parsing_instructions(d) for d in ds]: the lists, in order, and the heap
\* after compiling all of them.
EachPis(ds, heap) ==
    IF ds = << >> THEN [lists |-> << >>, heap |-> heap]
    ELSE LET r == _parsing_instructions(Head(ds), heap)
             rest == EachPis(Tail(ds), r.heap)
         IN  [lists |-> <<r.pis>> \o rest.lists, heap |-> rest.heap]

_parsing_instructions(defn, heap) == Emit(defn, EachPis(defn.kids, heap))

(***************************************************************************)
(* Programs.  A grammar is [defs |-> <<[name, expr], ...>>, start |-> name]*)
(***************************************************************************)

RECURSIVE RuleBlocks(_, _, _, _)
\* The loop of _make_program over grammar.definitions.
RuleBlocks(defs, pis, index, heap) ==
    IF defs = << >> THEN [pis |-> pis, index |-> index, heap |-> heap]
    ELSE LET d == Head(defs)
             r == _parsing_instructions(d.expr, heap)
             h1 == Append(r.heap, Ins("RETURN", 1))
         IN  RuleBlocks(Tail(defs),
                        pis \o r.pis \o <<Len(h1)>>,
                        index @@ (d.name :> Len(pis)),
                        h1)

\* index[name], or RAISED when the name has no definition (KeyError).
Lookup(index, name) ==
    IF name \in DOMAIN index THEN index[name] ELSE RAISED

\* Link without the loop that adds the locations to the calls.
Link_NoLocations(b) ==
    LET h2 == Append(b.heap, Ins("PASS", 1))
    IN  [ok |-> TRUE,
         error |-> "",
         pis |-> [k \in 1..Len(b.pis) + 1 |->
                    IF k <= Len(b.pis) THEN h2[b.pis[k]] ELSE h2[Len(h2)]],
         ids |-> Append(b.pis, Len(h2)),
         index |-> b.index]

\* Link with a lookup that never raises: index.get(name, -2).
Link_NoKeyError(b) ==
    LET h1 == [k \in 1..Len(b.heap) |->
                 IF b.heap[k].opcode = "CALL"
                 THEN [b.heap[k] EXCEPT
                         !.oploc = Lookup(b.index, b.heap[k].name)]
                 ELSE b.heap[k]]
        h2 == Append(h1, Ins("PASS", 1))
    IN  [ok |-> TRUE,
         error |-> "",
         pis |-> [k \in 1..Len(b.pis) + 1 |->
                    IF k <= Len(b.pis) THEN h2[b.pis[k]] ELSE h2[Len(h2)]],
         ids |-> Append(b.pis, Len(h2)),
         index |-> b.index]

\* The rest of _make_program, after the loop: the locations of the calls
\* and the final PASS.  The program is returned as the list of the
\* instructions themselves; ok is FALSE when a call names no rule:
\* index[pi.name] raises KeyError at the first such call, and error is its
\* key.
Link(b) ==
    LET h1 == [k \in 1..Len(b.heap) |->
                 IF b.heap[k].opcode = "CALL"
                 THEN [b.heap[k] EXCEPT
                         !.oploc = Lookup(b.index, b.heap[k].name)]
                 ELSE b.heap[k]]
        h2 == Append(h1, Ins("PASS", 1))
        bad == {k \in 1..Len(b.pis) :
                  /\ b.heap[b.pis[k]].opcode = "CALL"
                  /\ b.heap[b.pis[k]].name \notin DOMAIN b.index}
    IN  [ok |-> bad = {},
         error |-> IF bad = {} THEN ""
                   ELSE b.heap[b.pis[CHOOSE k \in bad :
                                       \A j \in bad : k <= j]].name,
         pis |-> [k \in 1..Len(b.pis) + 1 |->
                    IF k <= Len(b.pis) THEN h2[b.pis[k]] ELSE h2[Len(h2)]],
         ids |-> Append(b.pis, Len(h2)),
         index |-> b.index]

\* _make_program with a NOOP in place of the FAIL it appends first.
_make_program_NoFail(grammar) ==
    Link(RuleBlocks(grammar.defs, <<1>>, << >>, <<Ins("NOOP", 1)>>))

_make_program(grammar) ==
    Link(RuleBlocks(grammar.defs, <<1>>, << >>, <<Ins("FAIL", 1)>>))

\* The program of the one-rule grammar Start <- e, e a repetition, with the
\* repetition compiled by the last return of _rpt whatever its operand: the
\* loop that _rpt replaces by one SCAN when the operand is a class.
UncollapsedProgram(g) ==
    LET e == g.defs[1].expr
        r == _rpt_loop(e, IF e.op = "PLS" THEN 1 ELSE 0,
                       EachPis(e.kids, <<Ins("FAIL", 1)>>))
        h1 == Append(r.heap, Ins("RETURN", 1))
    IN  Link([pis |-> <<1>> \o r.pis \o <<Len(h1)>>,
              index |-> (g.defs[1].name :> 1),
              heap |-> h1])

(***************************************************************************)
(* Actions (user callables).  An action returns (new_args, new_kwargs).    *)
(***************************************************************************)

None == <<"None">>

\* The determined value of an emitted-value sequence.
Determine(vals) == IF vals = << >> THEN None ELSE vals[1]

RECURSIVE DictSet_KeepFirst(_, _, _)
\* d.setdefault(name, value): a name already in the dict keeps its value.
DictSet_KeepFirst(d, name, value) ==
    IF d = << >> THEN <<[name |-> name, value |-> value]>>
    ELSE IF Head(d).name = name THEN d
         ELSE <<Head(d)>> \o DictSet_KeepFirst(Tail(d), name, value)

RECURSIVE DictSet(_, _, _)
\* d[name] = value on a dict kept as its item sequence (insertion order).
DictSet(d, name, value) ==
    IF d = << >> THEN <<[name |-> name, value |-> value]>>
    ELSE IF Head(d).name = name
         THEN <<[name |-> name, value |-> value]>> \o Tail(d)
         ELSE <<Head(d)>> \o DictSet(Tail(d), name, value)

RECURSIVE Dict(_)
\* dict(pairs): later pairs overwrite earlier ones of the same name.
Dict(pairs) ==
    IF pairs = << >> THEN << >>
    ELSE LET p == pairs[Len(pairs)]
         IN  DictSet(Dict(SubSeq(pairs, 1, Len(pairs) - 1)), p.name, p.value)

\* Bind(name)(s, pos, end, args, kwargs)
Bind(name, largs, lkwargs) ==
    [args |-> << >>, kwargs |-> DictSet(lkwargs, name, Determine(largs))]

\* User callables: g returns nothing but a binding, any other (f, h)
\* returns one value, its name.
Raises(action) == action.kind = "Func" /\ action.name = "raise"

Call(action, s, start, end, largs, lkwargs) ==
    CASE action.kind = "Bind" -> Bind(action.name, largs, lkwargs)
      [] action.name = "g" ->
            [args |-> << >>, kwargs |-> <<[name |-> "k", value |-> <<"g">>]>>]
      [] OTHER -> [args |-> <<<<action.name>>>>, kwargs |-> << >>]

(***************************************************************************)
(* The machine                                                             *)
(***************************************************************************)

VARIABLES
    grammar,   \* the grammar given to MachineParser
    s,         \* the input string
    start,     \* the pos argument of match
    pi,        \* _Parser.pi, the program
    idx,       \* address of the next instruction
    pos,       \* the cursor
    args,      \* emitted values
    kwargs,    \* bindings, a list of (name, value)
    state,     \* the stack of State structs, top last
    status,    \* "run": in the loop of _match; "returned": _match has
               \* returned; "raising": an exception is propagating;
               \* "done": match has returned; "raised": match has let
               \* the exception out; "crash": NULL or freed memory was
               \* used; "error": the parser could not be constructed
    retval,    \* what _Parser.match returns
    calls,     \* the action invocations so far, in order
    last,      \* the latest step: its opcode and, when it failed, the
               \* frame that caught the failure
    mem,       \* the frames: how many PyMem_Malloc and PyMem_Free calls so
               \* far, the lowest height the stack has had, and how many
               \* frames were freed again after they had been freed
    prior,     \* the outcome of the caller's previous match on the same
               \* input, with another parser (NoPrior when there was none)
    error,     \* the key of the KeyError _make_program raised, "" when it
               \* returned a program
    other      \* the local variables of another call of match on the same
               \* parser that is in progress (a set: empty when there is
               \* none)

vars == <<grammar, s, start, pi, idx, pos, args, kwargs, state, status,
          retval, calls, last, mem, prior, error, other>>

NoPrior ==
    [grammar |-> [defs |-> << >>, start |-> ""], end |-> -1, args |-> << >>,
     kwargs |-> << >>]

Min(a, b) == IF a < b THEN a ELSE b

\* The counts of allocations and releases are kept up to this number.
MaxCount == 40

State(opidx, p, mark, argidx, kwidx) ==
    [opidx |-> opidx, pos |-> p, mark |-> mark, argidx |-> argidx,
     kwidx |-> kwidx]

push(opidx, p, mark, argidx, kwidx, prev) ==
    Append(prev, State(opidx, p, mark, argidx, kwidx))

pop(st) == SubSeq(st, 1, Len(st) - 1)

Top(st) == st[Len(st)]

\* pi[idx] with Python's negative indexing.
Fetch(prog, i) == IF i < 0 THEN prog[Len(prog) + i + 1] ELSE prog[i + 1]

ValidIdx(prog, i) == -Len(prog) <= i /\ i < Len(prog)

NoFrame == State(-1, -1, -1, -1, -1)

\* A machine configuration: the locals of _match that a step changes, and
\* the frame that caught the step's failure (NoFrame when it did not fail)
\* with the number of emitted values the unwinding removed.
Cfg(i, p, a, k, st, cl, sts) ==
    [idx |-> i, pos |-> p, args |-> a, kwargs |-> k, state |-> st,
     calls |-> cl, status |-> sts, failed |-> FALSE, caught |-> NoFrame,
     dropped |-> 0]

RECURSIVE Unwind(_)
\* while state and state.pos < 0: state = pop(state)
Unwind(st) ==
    IF st # << >> /\ Top(st).pos < 0 THEN Unwind(pop(st)) ELSE st

\* Backtrack without "args[state.argidx:] = []".
Backtrack_KeepArgs(c) ==
    LET st == Unwind(c.state)
    IN  IF st = << >>
        THEN [c EXCEPT !.state = st, !.status = "crash", !.failed = TRUE]
        ELSE [c EXCEPT
                !.failed = TRUE,
                !.caught = Top(st),
                !.idx = Top(st).opidx,
                !.pos = Top(st).pos,
                !.kwargs = IF c.kwargs # << >>
                           THEN PySetTail(c.kwargs, Top(st).kwidx, << >>)
                           ELSE c.kwargs,
                !.state = pop(st)]

\* The branch "if idx == FAILURE" of the post-processing.
Backtrack(c) ==
    LET st == Unwind(c.state)
    IN  IF st = << >>
        THEN [c EXCEPT !.state = st, !.status = "crash", !.failed = TRUE]
        ELSE [c EXCEPT
                !.failed = TRUE,
                !.caught = Top(st),
                !.dropped = Len(c.args)
                            - Len(PySetTail(c.args, Top(st).argidx, << >>)),
                !.idx = Top(st).opidx,
                !.pos = Top(st).pos,
                !.args = PySetTail(c.args, Top(st).argidx, << >>),
                !.kwargs = IF c.kwargs # << >>
                           THEN PySetTail(c.kwargs, Top(st).kwidx, << >>)
                           ELSE c.kwargs,
                !.state = pop(st)]

\* if instr.capturing: ...
Capture(c, instr) ==
    IF ~instr.capturing THEN c
    ELSE IF c.state = << >> THEN [c EXCEPT !.status = "crash"]
    ELSE LET t == Top(c.state)
         IN  [c EXCEPT
                !.args = PySetTail(c.args, t.argidx,
                                   <<PySlice(s, t.mark, c.pos)>>),
                !.kwargs = PySetTail(c.kwargs, t.kwidx, << >>),
                !.state = pop(c.state)]

\* if instr.action is not None: ...
Act(c, instr) ==
    IF instr.action = NoAction \/ c.status = "crash" THEN c
    ELSE IF c.state = << >> THEN [c EXCEPT !.status = "crash"]
    ELSE LET t == Top(c.state)
             largs == PyTail(c.args, t.argidx)
             lkwargs == Dict(PyTail(c.kwargs, t.kwidx))
             r == Call(instr.action, s, t.mark, c.pos, largs, lkwargs)
             call == [action |-> instr.action, start |-> t.mark,
                      end |-> c.pos, args |-> largs, kwargs |-> lkwargs]
         IN  IF Raises(instr.action)
             THEN [c EXCEPT !.status = "raising",
                            !.calls = Append(c.calls, call)]
             ELSE [c EXCEPT
                     !.args = PySetTail(c.args, t.argidx, r.args),
                     !.kwargs = PySetTail(c.kwargs, t.kwidx, r.kwargs),
                     !.state = pop(c.state),
                     !.calls = Append(c.calls, call)]

\* The branch "else" of the post-processing.
Advance(c, instr) ==
    LET d == Act(Capture(c, instr), instr)
    IN  IF d.status # "run" THEN d ELSE [d EXCEPT !.idx = c.idx + 1]

\* The configuration at the top of the loop body, after "if instr.marking".
Marked ==
    LET instr == Fetch(pi, idx)
    IN  Cfg(idx, pos, args, kwargs,
            IF instr.marking
            THEN push(0, -1, pos, Len(args), Len(kwargs), state)
            ELSE state,
            calls, "run")

\* Where a pass through the loop body leaves the machine: in the loop, or
\* out of it when the stack has become empty ("while state"), in which case
\* _match returns a fresh frame with pos = -1.
\* The frames a pass through the loop body allocates before it frees any:
\* the mark frame of a marking instruction and the frame of BRANCH or CALL.
Pushes(op) ==
    (IF Fetch(pi, idx).marking THEN 1 ELSE 0)
    + (IF op \in {"BRANCH", "CALL"} THEN 1 ELSE 0)

\* (cfg is bound once, as a value, before the primed variables are set.)
Loop(cfg, op) ==
    \E c \in {cfg} :
        /\ idx' = c.idx
        /\ pos' = c.pos
        /\ args' = c.args
        /\ kwargs' = c.kwargs
        /\ calls' = c.calls
        /\ last' = [op |-> op, failed |-> c.failed, caught |-> c.caught,
                    dropped |-> c.dropped]
        /\ IF c.status = "run" /\ c.state = << >>
           THEN /\ state' = push(0, -1, -1, 0, 0, << >>)
                /\ status' = "returned"
           ELSE /\ state' = c.state
                /\ status' = c.status
        /\ mem' = [mem EXCEPT
                     !.pushed = Min(MaxCount,
                                    mem.pushed + Pushes(op)
                                    + (IF c.status = "run" /\ c.state = << >>
                                       THEN 1 ELSE 0)),
                     !.popped = Min(MaxCount,
                                    mem.popped + Len(state) + Pushes(op)
                                    - Len(c.state)),
                     !.floor = Min(mem.floor, Len(c.state))]
        /\ UNCHANGED <<grammar, s, start, pi, retval, prior, error, other>>

Running == status = "run" /\ ValidIdx(pi, idx)

DoScan ==
    /\ Running
    /\ Fetch(pi, idx).opcode = "SCAN"
    /\ LET instr == Fetch(pi, idx)
           c == Marked
           p == Scan(instr.scanner, s, pos, Len(s))
       IN  IF p = RAISED
           THEN Loop([c EXCEPT !.status = "raising"], "SCAN")
           ELSE IF p < 0
           THEN Loop(Backtrack([c EXCEPT !.pos = p]), "SCAN")
           ELSE Loop(Advance([c EXCEPT !.pos = p], instr), "SCAN")

DoBranch ==
    /\ Running
    /\ Fetch(pi, idx).opcode = "BRANCH"
    /\ LET instr == Fetch(pi, idx)
           c == Marked
       IN  Loop([c EXCEPT
                   !.state = push(idx + instr.oploc, pos, -1, Len(args),
                                  Len(kwargs), c.state),
                   !.idx = idx + 1], "BRANCH")

\* DoCall pushing the call frame with the cursor in it, like a backtrack
\* frame.
DoCall_WithPos ==
    /\ Running
    /\ Fetch(pi, idx).opcode = "CALL"
    /\ LET instr == Fetch(pi, idx)
           c == Marked
       IN  Loop([c EXCEPT
                   !.state = push(idx + 1, pos, -1, -1, -1, c.state),
                   !.idx = instr.oploc], "CALL")

DoCall ==
    /\ Running
    /\ Fetch(pi, idx).opcode = "CALL"
    /\ LET instr == Fetch(pi, idx)
           c == Marked
       IN  Loop([c EXCEPT
                   !.state = push(idx + 1, -1, -1, -1, -1, c.state),
                   !.idx = instr.oploc], "CALL")

\* DoCommit without "state = pop(state)".
DoCommit_KeepFrame ==
    /\ Running
    /\ Fetch(pi, idx).opcode = "COMMIT"
    /\ LET instr == Fetch(pi, idx)
           c == Marked
       IN  Loop([c EXCEPT !.idx = idx + instr.oploc], "COMMIT")

DoCommit ==
    /\ Running
    /\ Fetch(pi, idx).opcode = "COMMIT"
    /\ LET instr == Fetch(pi, idx)
           c == Marked
       IN  Loop([c EXCEPT !.state = pop(c.state),
                          !.idx = idx + instr.oploc], "COMMIT")

\* DoUpdate without "state.pos = pos".
DoUpdate_KeepPos ==
    /\ Running
    /\ Fetch(pi, idx).opcode = "UPDATE"
    /\ LET instr == Fetch(pi, idx)
           c == Marked
           n == Len(c.state)
       IN  Loop([c EXCEPT
                   !.state = [c.state EXCEPT ![n].argidx = Len(args),
                                             ![n].kwidx = Len(kwargs)],
                   !.idx = idx + instr.oploc], "UPDATE")

DoUpdate ==
    /\ Running
    /\ Fetch(pi, idx).opcode = "UPDATE"
    /\ LET instr == Fetch(pi, idx)
           c == Marked
           n == Len(c.state)
       IN  Loop([c EXCEPT
                   !.state = [c.state EXCEPT ![n].pos = pos,
                                             ![n].argidx = Len(args),
                                             ![n].kwidx = Len(kwargs)],
                   !.idx = idx + instr.oploc], "UPDATE")

\* DoRestore without "state = pop(state)".
DoRestore_KeepFrame ==
    /\ Running
    /\ Fetch(pi, idx).opcode = "RESTORE"
    /\ LET instr == Fetch(pi, idx)
           c == Marked
       IN  Loop([c EXCEPT !.pos = Top(c.state).pos,
                          !.idx = idx + instr.oploc], "RESTORE")

DoRestore ==
    /\ Running
    /\ Fetch(pi, idx).opcode = "RESTORE"
    /\ LET instr == Fetch(pi, idx)
           c == Marked
       IN  Loop([c EXCEPT !.pos = Top(c.state).pos,
                          !.state = pop(c.state),
                          !.idx = idx + instr.oploc], "RESTORE")

\* DoFailTwice without "state = pop(state)".
DoFailTwice_KeepFrame ==
    /\ Running
    /\ Fetch(pi, idx).opcode = "FAILTWICE"
    /\ LET c == Marked
       IN  Loop(Backtrack([c EXCEPT !.pos = Top(c.state).pos]), "FAILTWICE")

DoFailTwice ==
    /\ Running
    /\ Fetch(pi, idx).opcode = "FAILTWICE"
    /\ LET c == Marked
       IN  Loop(Backtrack([c EXCEPT !.pos = Top(c.state).pos,
                                    !.state = pop(c.state)]), "FAILTWICE")

DoReturn ==
    /\ Running
    /\ Fetch(pi, idx).opcode = "RETURN"
    /\ LET c == Marked
       IN  Loop([c EXCEPT !.idx = Top(c.state).opidx,
                          !.state = pop(c.state)], "RETURN")

\* PASS breaks out of the loop; _match stores pos in the top frame and
\* returns it.
DoPass ==
    /\ Running
    /\ Fetch(pi, idx).opcode = "PASS"
    /\ LET c == Marked
           n == Len(c.state)
       IN  Loop([c EXCEPT !.state = [c.state EXCEPT ![n].pos = pos],
                          !.status = "returned"], "PASS")

DoFail ==
    /\ Running
    /\ Fetch(pi, idx).opcode = "FAIL"
    /\ Loop(Backtrack(Marked), "FAIL")

DoNoop ==
    /\ Running
    /\ Fetch(pi, idx).opcode = "NOOP"
    /\ Loop(Advance(Marked, Fetch(pi, idx)), "NOOP")

\* The end of _Parser.match without the finally clause: retval is read and
\* no frame is freed.
MatchReturn_NoFinally ==
    /\ status \in {"returned", "raising"}
    /\ retval' = IF status = "returned" THEN Top(state).pos ELSE RAISED
    /\ status' = IF status = "returned" THEN "done" ELSE "raised"
    /\ last' = [op |-> "match", failed |-> FALSE, caught |-> NoFrame,
                dropped |-> 0]
    /\ UNCHANGED <<grammar, s, start, pi, idx, pos, args, kwargs, calls,
                   prior, state, mem, error, other>>

\* The end of _Parser.match.  After a normal return of _match, state is
\* the frame _match returned: retval = state.pos and the finally clause
\* pops every frame under it.  When _match raised, the assignment to
\* state never happened: the finally clause walks the stack as it was when
\* _match was entered, the success and the failure frame, and the frames
\* _match had on top of them are not freed; an entry frame that _match
\* had popped already would be freed a second time, with any outcome.
MatchReturn ==
    /\ status \in {"returned", "raising"}
    /\ retval' = IF status = "returned" THEN Top(state).pos ELSE RAISED
    /\ state' = << >>
    /\ IF status = "returned"
       THEN /\ mem' = [mem EXCEPT
                           !.popped = Min(MaxCount, mem.popped + Len(state))]
            /\ status' = "done"
       ELSE /\ mem' = [mem EXCEPT
                           !.popped = Min(MaxCount, mem.popped + 2),
                                  !.refreed = 2 - Min(2, mem.floor)]
            /\ status' \in (IF mem.floor < 2 THEN {"raised", "crash"}
                            ELSE {"raised"})
    /\ last' = [op |-> "match", failed |-> FALSE, caught |-> NoFrame,
                dropped |-> 0]
    /\ UNCHANGED <<grammar, s, start, pi, idx, pos, args, kwargs, calls,
                   prior, error, other>>

(***************************************************************************)
(* Reference semantics of the operators (docs/specification.md): what an   *)
(* expression matches, emits and binds at a position, computed on the      *)
(* operator tree.  end = FAILURE when the expression does not match.       *)
(***************************************************************************)

Fails == [end |-> FAILURE, args |-> << >>, kwargs |-> << >>]

Ok(end, a, k) == [end |-> end, args |-> a, kwargs |-> k]

\* The expression of the rule called name.
Rule(g, name) ==
    LET k == CHOOSE k \in 1..Len(g.defs) : g.defs[k].name = name
    IN  g.defs[k].expr

\* Whether character c belongs to the class.
InClass(ranges, c) ==
    \E k \in 1..Len(ranges) :
        IF ranges[k][2] = "" THEN c = ranges[k][1]
        ELSE Ord(ranges[k][1]) <= Ord(c) /\ Ord(c) <= Ord(ranges[k][2])

RECURSIVE Eval(_, _, _, _)
RECURSIVE EvalSeq(_, _, _, _)
RECURSIVE EvalChc(_, _, _, _)
RECURSIVE EvalStar(_, _, _, _)

EvalSeq(g, es, str, p) ==
    IF es = << >> THEN Ok(p, << >>, << >>)
    ELSE LET r == Eval(g, Head(es), str, p)
         IN  IF r.end < 0 THEN Fails
             ELSE LET q == EvalSeq(g, Tail(es), str, r.end)
                  IN  IF q.end < 0 THEN Fails
                      ELSE Ok(q.end, r.args \o q.args, r.kwargs \o q.kwargs)

EvalChc(g, es, str, p) ==
    IF es = << >> THEN Fails
    ELSE LET r == Eval(g, Head(es), str, p)
         IN  IF r.end >= 0 THEN r ELSE EvalChc(g, Tail(es), str, p)

\* Zero or more e; an iteration that consumes nothing ends the repetition.
EvalStar(g, e, str, p) ==
    LET r == Eval(g, e, str, p)
    IN  IF r.end < 0 \/ r.end = p THEN Ok(p, << >>, << >>)
        ELSE LET q == EvalStar(g, e, str, r.end)
             IN  Ok(q.end, r.args \o q.args, r.kwargs \o q.kwargs)

Eval(g, e, str, p) ==
    CASE e.op = "DOT" ->
            IF p < Len(str) THEN Ok(p + 1, << >>, << >>) ELSE Fails
      [] e.op = "LIT" ->
            IF /\ p + Len(e.x) <= Len(str)
               /\ SubSeq(str, p + 1, p + Len(e.x)) = e.x
            THEN Ok(p + Len(e.x), << >>, << >>) ELSE Fails
      [] e.op = "CLS" ->
            IF p < Len(str) /\ (InClass(e.ranges, str[p + 1]) # e.neg)
            THEN Ok(p + 1, << >>, << >>) ELSE Fails
      [] e.op = "OPT" ->
            LET r == Eval(g, e.kids[1], str, p)
            IN  IF r.end < 0 THEN Ok(p, << >>, << >>) ELSE r
      [] e.op = "STR" -> EvalStar(g, e.kids[1], str, p)
      [] e.op = "PLS" ->
            LET r == Eval(g, e.kids[1], str, p)
            IN  IF r.end < 0 THEN Fails
                ELSE LET q == EvalStar(g, e.kids[1], str, r.end)
                     IN  Ok(q.end, r.args \o q.args, r.kwargs \o q.kwargs)
      [] e.op = "SYM" -> Eval(g, Rule(g, e.name), str, p)
      [] e.op = "AND" ->
            IF Eval(g, e.kids[1], str, p).end < 0 THEN Fails
            ELSE Ok(p, << >>, << >>)
      [] e.op = "NOT" ->
            IF Eval(g, e.kids[1], str, p).end < 0 THEN Ok(p, << >>, << >>)
            ELSE Fails
      [] e.op = "CAP" ->
            LET r == Eval(g, e.kids[1], str, p)
            IN  IF r.end < 0 THEN Fails
                ELSE Ok(r.end, <<SubSeq(str, p + 1, r.end)>>, << >>)
      [] e.op = "BND" ->
            LET r == Eval(g, e.kids[1], str, p)
            IN  IF r.end < 0 THEN Fails
                ELSE Ok(r.end, << >>,
                        DictSet(Dict(r.kwargs), e.name, Determine(r.args)))
      [] e.op = "SEQ" -> EvalSeq(g, e.kids, str, p)
      [] e.op = "CHC" -> EvalChc(g, e.kids, str, p)
      [] e.op = "RUL" ->
            LET r == Eval(g, e.kids[1], str, p)
            IN  IF r.end < 0 \/ e.action = NoAction THEN r
                ELSE LET v == Call(e.action, str, p, r.end, r.args,
                                   Dict(r.kwargs))
                     IN  Ok(r.end, v.args, v.kwargs)

\* The expression of the start rule, and what the reference semantics
\* gives for it on the input.
StartExpr == Rule(grammar, grammar.start)

Expected == Eval(grammar, StartExpr, s, start)

(***************************************************************************)
(* Grammars and inputs                                                     *)
(***************************************************************************)

MaxLen == 3

\* A grammar of one rule.
G1(e) == [defs |-> <<[name |-> "Start", expr |-> e]>>, start |-> "Start"]

Case(g, str, p) == [g |-> g, s |-> str, start |-> p]

A == LIT(<<"a">>)
B == LIT(<<"b">>)
C == LIT(<<"c">>)
AB == LIT(<<"a", "b">>)
Digit == CLS(<<<<"0", "9">>>>, FALSE)

\* The examples of the documentation.
NamedCases ==
    { Case(G1(SEQ(<<CHC(<<AB, A>>), C>>)), <<"a", "b", "c">>, 0),
      Case(G1(SEQ(<<CHC(<<A, AB>>), C>>)), <<"a", "b", "c">>, 0),
      Case(G1(SEQ(<<BND("x", CAP(PLS(Digit))), LIT(<<"!">>)>>)),
           <<"4", "2", "!">>, 0),
      Case(G1(SEQ(<<CAP(Digit), BND("x", CAP(CLS(<<<<".", "">>>>, FALSE))),
                    CAP(Digit)>>)),
           <<"1", ".", "4">>, 0),
      Case(G1(CAP(PLS(A))), <<"a", "a">>, 0),
      Case(G1(SEQ(<<STR(A), A>>)), <<"a", "a", "a">>, 0),
      Case(G1(STR(CAP(CLS(<<<<"a", "">>, <<"b", "">>, <<"c", "">>>>,
                          FALSE)))),
           <<"a", "a", "b", "b", "c", "c">>, 0),
      Case(G1(CAP(STR(CLS(<<<<"a", "">>, <<"b", "">>, <<"c", "">>>>,
                          FALSE)))),
           <<"a", "a", "b", "b", "c", "c">>, 0) }

Alphabet == {"a", "b"}

\* Every string over the alphabet of at most MaxLen characters.
Inputs == UNION {[1..n -> Alphabet] : n \in 0..MaxLen}

ClsA == CLS(<<<<"a", "">>>>, FALSE)

Leaves == {A, B, AB, DOT, ClsA}

Lits == {A, B, AB}

\* Expressions that emit and bind nothing.
Pure ==
    Leaves
    \cup {OPT(x) : x \in Leaves} \cup {STR(x) : x \in Leaves}
    \cup {PLS(x) : x \in Leaves} \cup {AND(x) : x \in Leaves}
    \cup {NOT(x) : x \in Leaves}
    \cup {SEQ(<<x, y>>) : x \in Lits, y \in Lits}
    \cup {CHC(<<x, y>>) : x \in Lits, y \in Lits}

\* Expressions that emit or bind.
Valued ==
    {CAP(x) : x \in Leaves}
    \cup {BND("x", CAP(x)) : x \in Lits}
    \cup {RUL(CAP(x), Func("f")) : x \in Lits}
    \cup {RUL(x, Func("g")) : x \in Lits}
    \cup {SEQ(<<CAP(x), y>>) : x \in Lits, y \in Lits}

\* Expressions that consume input whenever they match.
Consuming ==
    Leaves \cup {SEQ(<<A, B>>), CHC(<<A, B>>), CHC(<<AB, A>>), CAP(A),
                 BND("x", CAP(A))}

CapTrees ==
    {CAP(e) : e \in Pure}
    \cup {CAP(SEQ(<<x, CHC(<<y, z>>)>>)) : x \in {A, B}, y \in Lits, z \in Lits}
    \cup {CAP(e) : e \in Valued}
    \cup {CAP(CHC(<<x, y, z>>)) : x \in {A, AB}, y \in {AB, B}, z \in {A, B}}
    \cup {CAP(CHC(<<x, y>>)) : x \in Valued, y \in {A, CAP(B)}}

LookTrees ==
    {AND(e) : e \in Valued} \cup {NOT(e) : e \in Valued}
    \cup {SEQ(<<CAP(DOT), AND(e), DOT>>) : e \in Valued}
    \cup {SEQ(<<CAP(DOT), NOT(e), DOT>>) : e \in Valued}

ChoiceTrees ==
    {SEQ(<<CHC(<<x, y>>), z>>) : x \in Lits, y \in Lits, z \in Lits}
    \cup {SEQ(<<CHC(<<A, AB, B>>), z>>) : z \in Lits}
    \cup {SEQ(<<DOT, CHC(<<x, y>>), z>>) : x \in Lits, y \in Lits, z \in Lits}

RepTrees ==
    {STR(e) : e \in Consuming} \cup {PLS(e) : e \in Consuming}
    \cup {SEQ(<<STR(e), y>>) : e \in Consuming, y \in {A, B}}
    \cup {SEQ(<<PLS(e), y>>) : e \in Consuming, y \in {A, B}}

\* Rules with the action h, which no operand uses.
RulTrees ==
    {RUL(e, Func("h")) : e \in Pure \cup Valued}
    \cup {RUL(SEQ(<<x, CHC(<<y, z>>)>>), Func("h")) :
            x \in {A}, y \in Lits, z \in Lits}
    \cup {RUL(SEQ(<<x, AND(y)>>), Func("h")) : x \in {A}, y \in Lits}
    \cup {SEQ(<<x, RUL(e, f)>>) :
            x \in {CAP(A), BND("x", CAP(A)),
                   SEQ(<<CAP(A), BND("x", CAP(DOT))>>)},
            e \in {B, DOT, CAP(B), BND("y", CAP(B)), OPT(CAP(B)),
                   SEQ(<<CAP(AND(B)), DOT>>),
                   SEQ(<<CAP(DOT), CAP(AND(B)), DOT>>)},
            f \in {Func("h"), Func("g")}}
    \cup {SEQ(<<RUL(x, Func("f")), RUL(y, Func("g"))>>) :
            x \in {A, CAP(A), OPT(A), CHC(<<AB, A>>)},
            y \in {B, CAP(DOT), STR(A), NOT(A)}}
    \cup {RUL(SEQ(<<x, RUL(y, Func("f")), z>>), Func("g")) :
            x \in {A, CAP(DOT)}, y \in {B, CAP(A), OPT(A)},
            z \in {A, STR(B), CAP(DOT)}}

BndTrees ==
    {BND("x", e) : e \in Valued}
    \cup {SEQ(<<CAP(DOT), BND("x", e), CAP(DOT)>>) : e \in Valued}
    \cup {BND("x", CHC(<<CAP(x), CAP(y)>>)) : x \in Lits, y \in Lits}
    \cup {STR(BND("x", CAP(DOT))), PLS(BND("x", CAP(DOT))),
          SEQ(<<BND("y", CAP(DOT)), STR(BND("x", CAP(DOT)))>>),
          SEQ(<<BND("x", CAP(DOT)), BND("y", CAP(DOT)),
                BND("x", CAP(DOT))>>)}

\* Compositions around captures and rules: backtracking over them.
NestedTrees ==
    {OPT(SEQ(<<e, y>>)) : e \in Valued, y \in {A, B}}
    \cup {SEQ(<<CAP(DOT), CHC(<<SEQ(<<e, B>>), CAP(A)>>)>>) : e \in Valued}
    \cup {STR(SEQ(<<e, y>>)) : e \in Valued, y \in {A, B}}
    \cup {OPT(CAP(AND(A))), SEQ(<<OPT(CAP(AND(A))), B>>),
          STR(CAP(PLS(A))), SEQ(<<STR(SEQ(<<CAP(PLS(A)), B>>)), A>>),
          OPT(SEQ(<<RUL(CHC(<<A, B>>), Func("f")), B>>))}

Trees ==
    Pure \cup Valued \cup CapTrees \cup LookTrees \cup ChoiceTrees
    \cup RepTrees \cup RulTrees \cup BndTrees \cup NestedTrees

\* Character classes: single characters and ranges, several ranges.
Classes ==
    { <<<<"a", "a">>>>, <<<<"a", "a">>, <<"b", "b">>>>,
      <<<<"b", "b">>, <<"a", "a">>>>, <<<<"a", "">>, <<"b", "b">>>>,
      <<<<"a", "b">>>>, <<<<"b", "">>>> }

ClassTrees == {STR(CLS(r, neg)) : r \in Classes, neg \in BOOLEAN}

PlsClassTrees == {PLS(CLS(r, neg)) : r \in Classes, neg \in BOOLEAN}

\* A grammar of two rules, the first calling the second.
G2(e) ==
    [defs |-> <<[name |-> "Start", expr |-> SEQ(<<SYM("B"), SYM("B")>>)],
                [name |-> "B", expr |-> e]>>,
     start |-> "Start"]

SymGrammars ==
    {G2(e) : e \in {A, CAP(A), CHC(<<AB, A>>), OPT(CAP(B)),
                    RUL(CHC(<<A, B>>), Func("h")), CAP(AND(A)),
                    RUL(A, Func("h"))}}
    \cup {[defs |-> <<[name |-> "Start",
                       expr |-> SEQ(<<SYM("B"), SYM("C")>>)],
                      [name |-> "B", expr |-> SEQ(<<A, OPT(SYM("C"))>>)],
                      [name |-> "C", expr |-> CAP(B)]>>,
           start |-> "Start"]}
    \cup {G1(e) : e \in {SYM("X"), SEQ(<<A, OPT(SYM("X"))>>),
                          CHC(<<SYM("Y"), SYM("X")>>), CAP(SYM("X")),
                          SEQ(<<SYM("Start"), SYM("Y")>>)}}
    \cup {G2(SYM("X"))}

\* Grammars whose start rule captures, binds or acts on a nonterminal.
SymOperandGrammars ==
    {[defs |-> <<[name |-> "Start", expr |-> e],
                 [name |-> "B", expr |-> f]>>,
      start |-> "Start"] :
        e \in {CAP(SYM("B")), BND("x", SYM("B")), RUL(SYM("B"), Func("h")),
               SEQ(<<CAP(SYM("B")), SYM("B")>>)},
        f \in {A, CAP(A)}}

\* Bracketed <- "[" Bracketed "]" / ""
Bracketed ==
    [defs |-> <<[name |-> "Bracketed",
                 expr |-> CHC(<<SEQ(<<LIT(<<"[">>), SYM("Bracketed"),
                                      LIT(<<"]">>)>>),
                                LIT(<< >>)>>)]>>,
     start |-> "Bracketed"]

BracketInputs ==
    {<<"[", "[", "[", "]", "]", "]", "[", "]">>}
    \cup UNION {[1..n -> {"[", "]"}] : n \in 0..MaxLen}

\* Grammars with an action that raises: alone, after a capture, under a
\* choice, in a repetition, behind a nonterminal.
RaiseGrammars ==
    {G1(e) : e \in {RUL(A, Func("raise")),
                    SEQ(<<CAP(A), RUL(B, Func("raise"))>>),
                    CHC(<<SEQ(<<A, RUL(B, Func("raise"))>>), A>>),
                    STR(RUL(A, Func("raise")))}}
    \cup {G2(RUL(A, Func("raise")))}

\* Expressions matched from every start position: literals, sequences,
\* choices, repetitions, the dot and its repetitions, and lookaheads over
\* a captured lookahead.
PositionedTrees ==
    {LIT(<< >>), A, AB, LIT(<<"a", "b", "a">>),
     DOT, STR(DOT), PLS(DOT), STR(CAP(DOT)), SEQ(<<DOT, A>>),
     SEQ(<<CHC(<<AB, A>>), B>>), STR(A), CAP(PLS(A)),
     AND(CAP(AND(A))), OPT(AND(CAP(AND(A)))),
     SEQ(<<OPT(AND(CAP(AND(A)))), DOT>>),
     SEQ(<<OPT(NOT(CAP(AND(A)))), DOT>>),
     STR(CHC(<<SEQ(<<A, NOT(B)>>), B>>)),
     PLS(SEQ(<<OPT(A), AND(CHC(<<AB, B>>)), DOT>>))}

\* Repetitions whose operand can match without consuming input.
EmptyLoopTrees ==
    {STR(LIT(<< >>)), STR(OPT(A)), PLS(OPT(A)), SEQ(<<A, STR(LIT(<< >>))>>),
     STR(AND(A)), STR(NOT(A))}

Cases ==
    NamedCases
    \cup {Case(G1(e), str, 0) : e \in Trees, str \in Inputs}
    \cup {Case(g, str, 0) : g \in SymGrammars \cup SymOperandGrammars,
            str \in Inputs}
    \cup {Case(Bracketed, str, 0) : str \in BracketInputs}
    \cup {Case(G1(e), str, 0) : e \in EmptyLoopTrees, str \in Inputs}
    \cup {Case(g, str, 0) : g \in RaiseGrammars, str \in Inputs}
    \cup {c \in {Case(G1(e), str, p) :
                   e \in ClassTrees \cup PlsClassTrees \cup PositionedTrees,
                   str \in Inputs,
                   p \in 0..MaxLen} :
            c.start <= Len(c.s)}

\* A nonterminal in place of an expression: Start <- B; B <- e.
Wrap(e) ==
    [defs |-> <<[name |-> "Start", expr |-> SYM("B")],
                [name |-> "B", expr |-> e]>>,
     start |-> "Start"]

IsWrap(g) == Len(g.defs) = 2 /\ g.defs[1].expr = SYM("B")

IsNotNot(g) ==
    /\ Len(g.defs) = 1
    /\ g.defs[1].expr.op = "NOT"
    /\ g.defs[1].expr.kids[1].op = "NOT"

HasTwin(g) == IsWrap(g) \/ IsNotNot(g)

\* The grammar a grammar is compared with: the rule's expression written
\* in place of the nonterminal; AND(e) for NOT(NOT(e)).
Twin(g) ==
    IF IsWrap(g) THEN G1(g.defs[2].expr)
    ELSE G1(AND(g.defs[1].expr.kids[1].kids[1]))

\* Operands of nonterminals and lookaheads, the shapes of C1 and C6
\* included.
OperandTrees ==
    Pure \cup Valued
    \cup {CAP(AND(A)), CAP(PLS(A)), RUL(CHC(<<A, B>>), Func("h")),
          RUL(AND(A), Func("h")), BND("x", CHC(<<CAP(A), CAP(B)>>)),
          CAP(SEQ(<<A, CHC(<<A, B>>)>>)), AND(CAP(A)), NOT(CAP(A))}

TwinCases ==
    {Case(Wrap(e), str, 0) : e \in OperandTrees, str \in Inputs}
    \cup {c \in {Case(G1(NOT(NOT(e))), str, p) :
                   e \in OperandTrees, str \in Inputs, p \in 0..MaxLen} :
            c.start <= Len(c.s)}

\* Repetitions of a class run as the loop instead of the collapsed SCAN.
LoopCases ==
    {c \in {Case(G1(e), str, p) :
               e \in ClassTrees \cup PlsClassTrees, str \in Inputs,
               p \in 0..MaxLen} :
        c.start <= Len(c.s)}

\* Load without the failure frame: match pushes the success frame only.
Load_NoFailureFrame(c, p) ==
    /\ grammar = c.g
    /\ s = c.s
    /\ start = c.start
    /\ pos = c.start
    /\ args = << >>
    /\ kwargs = << >>
    /\ error = p.error
    /\ IF p.ok
       THEN /\ pi = p.pis
            /\ idx = p.index[c.g.start]
            /\ state = push(-1, -1, -1, 0, 0, << >>)
            /\ status = "run"
            /\ mem = [pushed |-> 1, popped |-> 0, floor |-> 1, refreed |-> 0]
       ELSE /\ pi = << >>
            /\ idx = 0
            /\ state = << >>
            /\ status = "error"
            /\ mem = [pushed |-> 0, popped |-> 0, floor |-> 0, refreed |-> 0]
    /\ retval = -1
    /\ calls = << >>
    /\ last = [op |-> "", failed |-> FALSE, caught |-> NoFrame,
               dropped |-> 0]
    /\ prior = NoPrior

\* The state in which _Parser.match enters _match: program p of grammar
\* c.g, input c.s, position c.start.  When _make_program raised instead of
\* returning p, MachineParser.__init__ raised too: there is no parser, no
\* program and no index, and nothing to run.
Load(c, p) ==
    /\ grammar = c.g
    /\ s = c.s
    /\ start = c.start
    /\ pos = c.start
    /\ args = << >>
    /\ kwargs = << >>
    /\ error = p.error
    /\ IF p.ok
       THEN /\ pi = p.pis
            /\ idx = p.index[c.g.start]
            /\ state = push(-1, -1, -1, 0, 0, push(0, 0, -1, 0, 0, << >>))
            /\ status = "run"
            /\ mem = [pushed |-> 2, popped |-> 0, floor |-> 2, refreed |-> 0]
       ELSE /\ pi = << >>
            /\ idx = 0
            /\ state = << >>
            /\ status = "error"
            /\ mem = [pushed |-> 0, popped |-> 0, floor |-> 0, refreed |-> 0]
    /\ retval = -1
    /\ calls = << >>
    /\ last = [op |-> "", failed |-> FALSE, caught |-> NoFrame,
               dropped |-> 0]
    /\ prior = NoPrior

Init ==
    /\ other = {}
    /\ \/ \E c \in Cases \cup TwinCases : Load(c, _make_program(c.g))
       \/ \E c \in LoopCases : Load(c, UncollapsedProgram(c.g))

\* The caller matches the same input at the same position again, with the
\* parser of the grammar's twin, and keeps the outcome of the first match.
MatchAgain ==
    /\ status = "done"
    /\ prior = NoPrior
    /\ HasTwin(grammar)
    /\ \E p \in {_make_program(Twin(grammar))} :
           /\ p.ok
           /\ grammar' = Twin(grammar)
           /\ pi' = p.pis
           /\ idx' = p.index[Twin(grammar).start]
    /\ prior' = [grammar |-> grammar, end |-> retval, args |-> args,
                 kwargs |-> kwargs]
    /\ pos' = start
    /\ args' = << >>
    /\ kwargs' = << >>
    /\ state' = push(-1, -1, -1, 0, 0, push(0, 0, -1, 0, 0, << >>))
    /\ status' = "run"
    /\ retval' = -1
    /\ calls' = << >>
    /\ last' = [op |-> "", failed |-> FALSE, caught |-> NoFrame,
                dropped |-> 0]
    /\ mem' = [pushed |-> 2, popped |-> 0, floor |-> 2, refreed |-> 0]
    /\ UNCHANGED <<s, start, error, other>>

Next ==
    \/ DoScan
    \/ DoBranch
    \/ DoCall
    \/ DoCommit
    \/ DoUpdate
    \/ DoRestore
    \/ DoFailTwice
    \/ DoReturn
    \/ DoPass
    \/ DoFail
    \/ DoNoop
    \/ MatchReturn
    \/ MatchAgain


Spec == Init /\ [][Next]_vars

\* The grammars of the termination check: repetitions of operands that may
\* match the empty string, recursion, lookaheads, captures, rules.
LiveCases ==
    NamedCases
    \cup {Case(G1(e), str, 0) : e \in EmptyLoopTrees, str \in Inputs}
    \cup {Case(Bracketed, str, 0) : str \in BracketInputs}
    \cup {Case(g, str, 0) : g \in SymGrammars, str \in Inputs}
    \cup {Case(G1(e), str, 0) :
            e \in {CAP(CHC(<<AB, A>>)), STR(CAP(PLS(A))), OPT(CAP(AND(A))),
                   SEQ(<<STR(SEQ(<<CAP(PLS(A)), B>>)), A>>)},
            str \in Inputs}
    \cup {Case(Wrap(e), str, 0) : e \in {CAP(A), STR(A)}, str \in Inputs}
    \cup {Case(G1(NOT(NOT(e))), str, 0) : e \in {A, CAP(AB)}, str \in Inputs}

LiveInit ==
    /\ other = {}
    /\ \E c \in LiveCases : Load(c, _make_program(c.g))

\* The loop of _match keeps executing instructions, and match returns once
\* _match has.
LiveSpec == LiveInit /\ [][Next]_vars /\ WF_vars(Next)

\* Two calls of match on one parser, on two inputs: the second is entered
\* (its arguments bound, its two entry frames pushed) while the first is
\* at its start.  A call that is alone is one of the cases.
SharedInit ==
    \E g \in {G1(SEQ(<<CHC(<<AB, A>>), STR(A)>>)),
               G1(SEQ(<<AND(A), NOT(AB), PLS(CLS(<<<<"a", "b">>>>, FALSE))>>)),
               G1(STR(BND("x", CAP(DOT)))),
               Wrap(CAP(CHC(<<AB, A>>)))},
       s1 \in Inputs,
       o \in {{}} \cup {{[s |-> s2, start |-> 0, idx |-> 1, pos |-> 0,
                           args |-> << >>, kwargs |-> << >>,
                           state |-> push(-1, -1, -1, 0, 0,
                                          push(0, 0, -1, 0, 0, << >>)),
                           status |-> "run", retval |-> -1,
                           calls |-> << >>,
                           last |-> [op |-> "", failed |-> FALSE,
                                     caught |-> NoFrame, dropped |-> 0],
                           mem |-> [pushed |-> 2, popped |-> 0, floor |-> 2,
                                    refreed |-> 0]]} :
                         s2 \in {<<"a", "b">>, <<"a", "a", "a">>, <<"b">>}} :
        /\ Load(Case(g, s1, 0), _make_program(g))
        /\ other = o

\* Control passes from the call of match in progress to the other one:
\* each call has its own arguments and local variables (s, pos, idx,
\* args, kwargs, state, retval); the parser and its program are common.
Switch_SharedArgs ==
    /\ \E o \in other :
          /\ other' = {[s |-> s, start |-> start, idx |-> idx, pos |-> pos,
                        args |-> args, kwargs |-> kwargs, state |-> state,
                        status |-> status, retval |-> retval,
                        calls |-> calls, last |-> last, mem |-> mem]}
          /\ s' = o.s
          /\ start' = o.start
          /\ idx' = o.idx
          /\ pos' = o.pos
          /\ kwargs' = o.kwargs
          /\ state' = o.state
          /\ status' = o.status
          /\ retval' = o.retval
          /\ calls' = o.calls
          /\ last' = o.last
          /\ mem' = o.mem
    /\ UNCHANGED <<grammar, pi, prior, error, args>>

Switch ==
    /\ \E o \in other :
          /\ other' = {[s |-> s, start |-> start, idx |-> idx, pos |-> pos,
                        args |-> args, kwargs |-> kwargs, state |-> state,
                        status |-> status, retval |-> retval,
                        calls |-> calls, last |-> last, mem |-> mem]}
          /\ s' = o.s
          /\ start' = o.start
          /\ idx' = o.idx
          /\ pos' = o.pos
          /\ args' = o.args
          /\ kwargs' = o.kwargs
          /\ state' = o.state
          /\ status' = o.status
          /\ retval' = o.retval
          /\ calls' = o.calls
          /\ last' = o.last
          /\ mem' = o.mem
    /\ UNCHANGED <<grammar, pi, prior, error>>

SharedNext ==
    \/ DoScan
    \/ DoBranch
    \/ DoCall
    \/ DoCommit
    \/ DoUpdate
    \/ DoRestore
    \/ DoFailTwice
    \/ DoReturn
    \/ DoPass
    \/ DoFail
    \/ DoNoop
    \/ MatchReturn
    \/ Switch

SharedSpec == SharedInit /\ [][SharedNext]_vars

(***************************************************************************)
(* Properties                                                              *)
(***************************************************************************)

\* _match has returned: on success the stack holds the frames left when
\* PASS was executed and the top frame holds the end position.
Returned == status = "returned"

End == Top(state).pos

\* Only the failure-fallback frame is left.
CleanStack == Len(state) = 1

\* What the operand of the start expression matches on the input.
Operand == Eval(grammar, StartExpr.kids[1], s, start)

\* C1: whenever e matches at the start position, CAP(e) succeeds at e's end
\* with args holding exactly the substring matched by e, no bindings, and
\* the capture's mark frame popped; for every shape of e.
C1_CapEmitsSubstring ==
    (Returned /\ StartExpr.op = "CAP" /\ Operand.end >= 0)
    => /\ End = Operand.end
       /\ args = <<PySlice(s, start, Operand.end)>>
       /\ kwargs = << >>
       /\ CleanStack

\* The lookahead of the start expression: the expression itself, or the
\* middle element of CAP(DOT) lookahead DOT.
IsLook(e) == e.op \in {"AND", "NOT"}

\* C2: when AND(e) or NOT(e) succeeds, pos, args and kwargs are what they
\* were when the lookahead started, also for e holding CAP, BND or a RUL
\* with an action.  Checked on the final result: a lookahead alone leaves
\* the start position and no values; between CAP(DOT) and DOT it leaves
\* the one captured character and the two consumed characters.
C2_LookaheadFrame ==
    /\ (Returned /\ IsLook(StartExpr) /\ End >= 0)
       => (End = start /\ args = << >> /\ kwargs = << >>)
    /\ (Returned /\ StartExpr \in LookTrees /\ StartExpr.op = "SEQ"
        /\ End >= 0)
       => (End = start + 2 /\ args = <<PySlice(s, start, start + 1)>>
           /\ kwargs = << >>)

\* C3: CHC tries its alternatives in order at the position where the choice
\* started, and a committed choice is never resumed by a later failure of
\* the enclosing sequence: a sequence that starts with a choice ends where
\* prioritized choice says, ("ab" / "a") "c" ends at 3 on 'abc' and
\* ("a" / "ab") "c" fails on 'abc'.
C3_ChoiceCommits ==
    /\ (Returned /\ StartExpr \in ChoiceTrees) => End = Expected.end
    /\ (Returned /\ StartExpr = SEQ(<<CHC(<<AB, A>>), C>>)
        /\ s = <<"a", "b", "c">>) => End = 3
    /\ (Returned /\ StartExpr = SEQ(<<CHC(<<A, AB>>), C>>)
        /\ s = <<"a", "b", "c">>) => End = FAILURE

\* The first alternative matched, the rest of the sequence failed, and the
\* second alternative would have let it match.
C3_Witness ==
    /\ Returned
    /\ StartExpr = SEQ(<<CHC(<<A, AB>>), A>>)
    /\ s = <<"a", "b", "a">>
    /\ End = FAILURE

\* C4: when a failure is caught by a backtrack frame, execution resumes at
\* the frame's address with pos, len(args) and len(kwargs) equal to the
\* values the frame recorded.
C4_BacktrackRestores ==
    (last.failed /\ status # "crash")
    => /\ idx = last.caught.opidx
       /\ pos = last.caught.pos
       /\ Len(args) = last.caught.argidx
       /\ Len(kwargs) = last.caught.kwidx

\* A failure caught by the frame of a BRANCH removed a value that the
\* failed attempt had emitted.
C4_Witness ==
    /\ last.failed
    /\ last.caught.opidx > 0
    /\ last.dropped > 0
    /\ pos = last.caught.pos
    /\ Len(args) = last.caught.argidx

IsRep(e) == e.op \in {"STR", "PLS"}

OwnCalls == SelectSeq(calls, LAMBDA c : c.action = StartExpr.action)

\* C6: when e matches, RUL(e, action) invokes the action exactly once, with
\* the position where the rule started, the position where e ended and the
\* values emitted and names bound by e, and the rule's mark frame is
\* popped; for every shape of e.
C6_RuleActionOnce ==
    (Returned /\ StartExpr \in RulTrees /\ Operand.end >= 0)
    => /\ OwnCalls = <<[action |-> StartExpr.action, start |-> start,
                       end |-> Operand.end, args |-> Operand.args,
                       kwargs |-> Dict(Operand.kwargs)]>>
       /\ End = Operand.end
       /\ CleanStack

\* C7: BND(name, e) matches exactly when e matches and consumes the same
\* input; the values emitted by e are removed, the values emitted before e
\* stay, and kwargs gains (name, first value emitted by e).
C7_BindDetermined ==
    /\ (Returned /\ StartExpr \in BndTrees)
       => /\ End = Expected.end
          /\ End >= 0 => /\ args = Expected.args
                         /\ Dict(kwargs) = Dict(Expected.kwargs)
    /\ (Returned /\ StartExpr.op = "BND")
       => /\ (End >= 0) = (Operand.end >= 0)
          /\ End >= 0 => /\ End = Operand.end
                         /\ args = << >>
                         /\ Dict(kwargs)
                            = DictSet(Dict(Operand.kwargs), StartExpr.name,
                                      Determine(Operand.args))
    /\ (Returned /\ s = <<"4", "2", "!">>)
       => (End = 3 /\ args = << >>
           /\ kwargs = <<[name |-> "x", value |-> <<"4", "2">>]>>)
    /\ (Returned /\ s = <<"1", ".", "4">>)
       => (End = 3 /\ args = <<<<"1">>, <<"4">>>>
           /\ kwargs = <<[name |-> "x", value |-> <<".">>]>>)

IsCapturedChoice(e) == e.op = "CAP" /\ e.kids[1].op = "CHC"

\* The addresses of the COMMITs of a program that jump to address a.
CommitsTo(prog, a) ==
    {k \in 0..Len(prog) - 1 :
        prog[k + 1].opcode = "COMMIT" /\ k + prog[k + 1].oploc = a}

\* C8: CAP(CHC(e1, ..., en)) emits the substring matched by whichever
\* alternative matched; the capture is carried by a NOOP placed after the
\* whole choice, which every alternative's COMMIT jumps to.
C8_CapturedChoice ==
    IsCapturedChoice(StartExpr)
    => /\ Returned
          => /\ End = Expected.end
             /\ End >= 0 => /\ args = <<PySlice(s, start, End)>>
                            /\ kwargs = << >>
                            /\ CleanStack
       /\ LET a == Len(pi) - 3
          IN  /\ Fetch(pi, a).opcode = "NOOP"
              /\ Fetch(pi, a).capturing
              /\ Cardinality(CommitsTo(pi, a))
                 = Len(StartExpr.kids[1].kids) - 1

\* A captured choice whose first alternative matched.
C8_Witness ==
    /\ Returned
    /\ StartExpr = CAP(CHC(<<AB, A>>))
    /\ s = <<"a", "b", "a">>
    /\ End = 2
    /\ args = <<<<"a", "b">>>>

\* The program of the grammar as the list of the identities of its
\* instructions.
Ids == _make_program(grammar).ids

\* C9: in the program of an uncollapsed PLS(e) the mandatory first copy of
\* e and the copy in the loop are distinct instructions, so CAP(PLS(LIT a))
\* on 'aa' ends at 2 and emits 'aa'.
C9_DistinctCopies ==
    /\ (StartExpr = PLS(A) \/ StartExpr = CAP(PLS(A))) => Ids[2] # Ids[4]
    /\ (Returned /\ StartExpr = CAP(PLS(A)) /\ s = <<"a", "a">>)
       => (End = 2 /\ args = <<<<"a", "a">>>>)

RECURSIVE LongestRun(_, _, _, _)
\* The end of the longest run of characters from position p on that belong
\* to the class (or do not, when neg).
LongestRun(ranges, neg, str, p) ==
    IF p < Len(str) /\ (InClass(ranges, str[p + 1]) # neg)
    THEN LongestRun(ranges, neg, str, p + 1)
    ELSE p

\* C10: a Class scanner with maxN = -1 returns the end of the longest run
\* of characters c with ((c listed or in some range) XOR neg), each
\* character being tested against all ranges.
C10_ClassLongestRun ==
    (Returned /\ StartExpr \in ClassTrees)
    => End = LongestRun(StartExpr.kids[1].ranges, StartExpr.kids[1].neg,
                        s, start)

\* The machine runs the uncollapsed loop of a repetition of a class.
Uncollapsed ==
    /\ StartExpr \in ClassTrees \cup PlsClassTrees
    /\ pi = UncollapsedProgram(grammar).pis

\* What the collapsed SCAN of the compiled program returns at the start
\* position.
CollapsedEnd == Scan(Fetch(_make_program(grammar).pis, 1).scanner,
                     s, start, Len(s))

\* C11: for every class, input and start position the uncollapsed loop of
\* STR(CLS c) or PLS(CLS c) ends (or fails) exactly where the single
\* collapsed SCAN does.
C11_CollapsePreserves ==
    (Returned /\ Uncollapsed) => End = CollapsedEnd

\* The address of the first instruction of the rule whose block holds
\* address a.
RuleStart(a) ==
    LET index == _make_program(grammar).index
        before == {index[n] : n \in {m \in DOMAIN index : index[m] <= a}}
    IN  CHOOSE k \in before : \A j \in before : j <= k

\* A call-return frame: the frame pushed by CALL.
IsCallFrame(f) == f.pos = -1 /\ f.mark = -1 /\ f.argidx = -1 /\ f.kwidx = -1

\* Frame f was pushed by a CALL of the rule that starts at address a.
CallOf(f, a) ==
    /\ IsCallFrame(f)
    /\ f.opidx >= 1
    /\ Fetch(pi, f.opidx - 1).opcode = "CALL"
    /\ Fetch(pi, f.opidx - 1).oploc = a

\* C12: each CALL pushes one call-return frame and enters the rule body;
\* when the body's RETURN is executed the top frame is the frame of the
\* CALL of that rule (or the success frame, for the start rule), so RETURN
\* resumes after that CALL with the frames below it as the CALL found
\* them; Bracketed on '[[[]]][]' ends at 6.
C12_CallReturn ==
    /\ (last.op = "CALL" /\ status = "run") => CallOf(Top(state), idx)
    /\ (Running /\ Fetch(pi, idx).opcode = "RETURN")
       => \/ CallOf(Top(state), RuleStart(idx))
          \/ /\ Top(state) = State(-1, -1, -1, 0, 0)
             /\ RuleStart(idx) = _make_program(grammar).index[grammar.start]
    /\ (Returned /\ grammar = Bracketed
        /\ s = <<"[", "[", "[", "]", "]", "]", "[", "]">>) => End = 6

\* C13: a nonterminal behaves as its rule's expression written in its
\* place: Start <- B; B <- e and Start <- e give the same end position
\* (the same failure), the same args and the same kwargs on every input.
C13_NonterminalInline ==
    (status = "done" /\ IsWrap(prior.grammar))
    => /\ retval = prior.end
       /\ args = prior.args
       /\ kwargs = prior.kwargs

\* Both grammars matched "a" "b" held by a capture: end 1 and one value.
C13_Witness ==
    /\ status = "done"
    /\ prior.grammar = Wrap(CAP(A))
    /\ s = <<"a", "b">>
    /\ retval = 1
    /\ args = <<<<"a">>>>

\* C14: NOT(NOT(e)) succeeds exactly when AND(e) does, and after either
\* lookahead the cursor is where it was before it.
C14_DoubleNegation ==
    (status = "done" /\ IsNotNot(prior.grammar))
    => /\ (prior.end >= 0) = (retval >= 0)
       /\ prior.end >= 0 => prior.end = start
       /\ retval >= 0 => retval = start

\* Both lookaheads succeeded in the middle of the input.
C14_Witness ==
    /\ status = "done"
    /\ prior.grammar = G1(NOT(NOT(AB)))
    /\ s = <<"b", "a", "b">>
    /\ start = 1
    /\ prior.end = 1
    /\ retval = 1

\* C15: on every grammar without left recursion, a repetition of an
\* operand that can match the empty string included, and every input, a
\* match that is running leaves the loop of _match: it reaches PASS or the
\* final failure after finitely many steps.
C15_Terminates == (status = "run") ~> (status # "run")

\* What MachineParser.match hands back: None when the end is negative, and
\* otherwise the Match with the caller's args and kwargs.
MatchValue ==
    IF retval < 0 THEN None
    ELSE [s |-> s, pos |-> start, end |-> retval, args |-> args,
          kwargs |-> Dict(kwargs)]

\* C16: when the start rule does not match the input, the match ends
\* without raising, with a negative end position, MachineParser.match
\* gives None, and the caller's args and kwargs are empty.
C16_FailedMatch ==
    (status \in {"done", "raised", "crash"} /\ Expected.end < 0)
    => /\ status = "done"
       /\ retval < 0
       /\ MatchValue = None
       /\ args = << >>
       /\ kwargs = << >>

\* C17: when an action raises, the exception leaves match, and every frame
\* allocated during the match (the two entry frames and the backtrack,
\* mark and call frames on the stack at that moment) has been freed
\* exactly once by then.
C17_RaiseReleases ==
    (retval = RAISED /\ mem.pushed < MaxCount)
    => /\ status = "raised"
       /\ mem.popped = mem.pushed
       /\ mem.refreed = 0

\* C18: after _Parser.match has returned normally, on success and on
\* failure, the stack is empty, as many frames have been freed as were
\* allocated, the two entry frames included, and none was freed twice.
C18_FramesReleased ==
    (status = "done" /\ mem.pushed < MaxCount)
    => /\ state = << >>
       /\ mem.popped = mem.pushed
       /\ mem.refreed = 0

\* A successful match that allocated a backtrack frame beyond the two
\* entry frames: ("ab" / "a") "b" on "abb".
C18_Witness ==
    /\ status = "done"
    /\ grammar = G1(SEQ(<<CHC(<<AB, A>>), B>>))
    /\ s = <<"a", "b", "b">>
    /\ retval = 3
    /\ mem.pushed = 3
    /\ mem.popped = 3

\* C19: a successful match started at start, 0 <= start <= Len(s), reports
\* an end position between start and the length of the input.
C19_EndInBounds ==
    (status = "done" /\ retval >= 0)
    => /\ start <= retval
       /\ retval <= Len(s)

\* A backtrack frame: pushed by BRANCH, or the failure frame of match, with
\* a position to return to and no mark.
IsBacktrackFrame(f) == f.pos >= 0 /\ f.mark = -1

\* The failure frame match pushes first.
FailureFrame == State(0, 0, -1, 0, 0)

\* C20: a failing step unwinds to the nearest backtrack frame, which
\* catches it; when the frame that catches it is the last one, it is the
\* failure frame of match, the loop is left (PASS cannot be executed any
\* more) and the position reported is negative.
C20_SingleFailurePath ==
    /\ last.failed
       => /\ status # "crash"
          /\ IsBacktrackFrame(last.caught)
    /\ (last.failed /\ status = "returned")
       => /\ last.caught = FailureFrame
          /\ End < 0

\* C21: no instruction with opcode CALL, COMMIT, UPDATE, RESTORE, FAILTWICE
\* or RETURN has marking set, capturing set or an action attached.
C21_PlainStackOps ==
    \A k \in 1..Len(pi) :
        pi[k].opcode \in NO_CAP_OR_ACT
        => /\ ~pi[k].marking
           /\ ~pi[k].capturing
           /\ pi[k].action = NoAction

\* C21 as the compiler has it: none of these instructions has capturing
\* set or an action attached, and marking is set on none of them but CALL,
\* the first instruction of a captured, bound or acted-on nonterminal.
C21_NoCapOrAct ==
    \A k \in 1..Len(pi) :
        pi[k].opcode \in NO_CAP_OR_ACT
        => /\ ~pi[k].capturing
           /\ pi[k].action = NoAction
           /\ pi[k].marking => pi[k].opcode = "CALL"

\* The program of Start <- (B -> h); B <- "a": the CALL is marking and the
\* action sits on a NOOP after it.
C21_Witness ==
    /\ grammar.defs[1].expr = RUL(SYM("B"), Func("h"))
    /\ pi[2].opcode = "CALL"
    /\ pi[2].marking
    /\ pi[3].opcode = "NOOP"
    /\ pi[3].action = Func("h")
    /\ status = "done"

RECURSIVE BlockStart(_, _)
\* The address of the first instruction of the j-th rule: after the FAIL at
\* address 0 and, for each rule before it, its instructions and a RETURN.
BlockStart(g, j) ==
    IF j = 1 THEN 1
    ELSE BlockStart(g, j - 1)
         + Len(_parsing_instructions(g.defs[j - 1].expr, << >>).pis) + 1

\* C22: the oploc of each CALL is the address the index holds for the rule
\* it names, that address is the first instruction of the rule's body, and
\* the body ends with a RETURN.
C22_CallTargets ==
    LET index == _make_program(grammar).index
    IN  \A k \in 1..Len(pi) :
            pi[k].opcode = "CALL"
            => \E j \in 1..Len(grammar.defs) :
                  /\ grammar.defs[j].name = pi[k].name
                  /\ pi[k].oploc = index[pi[k].name]
                  /\ pi[k].oploc = BlockStart(grammar, j)
                  /\ Fetch(pi, BlockStart(grammar, j + 1) - 1).opcode
                     = "RETURN"
                  /\ \A a \in BlockStart(grammar, j)
                                ..(BlockStart(grammar, j + 1) - 2) :
                         Fetch(pi, a).opcode # "RETURN"

\* Start <- B C; B <- "a" C?; C <- ~"b": the calls of B and C in the
\* start rule and of C in B, with B's body at address 4 and C's at 9.
C22_Witness ==
    /\ Len(grammar.defs) = 3
    /\ pi[2].opcode = "CALL" /\ pi[2].oploc = 4
    /\ pi[3].opcode = "CALL" /\ pi[3].oploc = 9
    /\ pi[7].opcode = "CALL" /\ pi[7].oploc = 9
    /\ status = "done"

\* C23: every compiled program has FAIL at address 0 and PASS as its last
\* instruction and nowhere else, and between them the instructions of each rule, in
\* the order of the definitions, each rule followed by one RETURN.
C23_ProgramLayout ==
    status # "error"
    => /\ pi[1].opcode = "FAIL"
       /\ pi[Len(pi)].opcode = "PASS"
       /\ \A k \in 1..(Len(pi) - 1) : pi[k].opcode # "PASS"
       /\ ~Uncollapsed
          => /\ Len(pi) = BlockStart(grammar, Len(grammar.defs) + 1) + 1
             /\ \A j \in 1..Len(grammar.defs) :
                   LET r == _parsing_instructions(grammar.defs[j].expr,
                                                  << >>)
                       a == BlockStart(grammar, j)
                   IN  /\ \A k \in 1..Len(r.pis) :
                             Fetch(pi, a + k - 1).opcode
                             = r.heap[r.pis[k]].opcode
                       /\ Fetch(pi, a + Len(r.pis)).opcode = "RETURN"

\* The program of Start <- B C; B <- "a" C?; C <- ~"b", twelve
\* instructions with the RETURNs of the three rules at 3, 8 and 10.
C23_Witness ==
    /\ Len(grammar.defs) = 3
    /\ Len(pi) = 12
    /\ pi[1].opcode = "FAIL"
    /\ pi[4].opcode = "RETURN"
    /\ pi[9].opcode = "RETURN"
    /\ pi[11].opcode = "RETURN"
    /\ pi[12].opcode = "PASS"
    /\ status = "run"

RECURSIVE SymNames(_)
\* The names of the nonterminals in an expression.
SymNames(e) ==
    IF e.op = "SYM" THEN {e.name}
    ELSE UNION {SymNames(e.kids[k]) : k \in 1..Len(e.kids)}

\* C24: compiling a grammar that holds SYM(n) for a name n without a
\* definition fails with an error that reports such a name, and neither a
\* program nor an index comes out of it.
C24_UndefinedRule ==
    LET used == UNION {SymNames(grammar.defs[j].expr) :
                         j \in 1..Len(grammar.defs)}
        defined == {grammar.defs[j].name : j \in 1..Len(grammar.defs)}
    IN  used \ defined # {}
        => /\ status = "error"
           /\ error \in used \ defined
           /\ pi = << >>
           /\ state = << >>

\* Start <- Y / X with neither defined: the error reports Y, the first
\* call in the program.
C24_Witness ==
    /\ grammar = G1(CHC(<<SYM("Y"), SYM("X")>>))
    /\ status = "error"
    /\ error = "Y"
    /\ pi = << >>

\* C25: STR(CAP(e)) and PLS(CAP(e)) emit one value for each iteration
\* that matched, in the order of the input, the values of the iterations
\* before the failing last attempt included; (~[abc])* on 'aabbcc' emits
\* 'a', 'a', 'b', 'b', 'c', 'c' and ~[abc]* emits 'aabbcc'.
C25_RepeatedCaptures ==
    /\ (/\ status = "done"
        /\ StartExpr.op \in {"STR", "PLS"}
        /\ StartExpr.kids[1].op = "CAP")
       => /\ retval = Expected.end
          /\ args = Expected.args
    /\ (status = "done" /\ s = <<"a", "a", "b", "b", "c", "c">>)
       => /\ StartExpr.op = "STR"
             => args = <<<<"a">>, <<"a">>, <<"b">>, <<"b">>, <<"c">>, <<"c">>>>
          /\ StartExpr.op = "CAP"
             => args = <<s>>

\* C26: once the action of a rule has returned (new_args, new_kwargs), the
\* args after the rule's mark are new_args and the kwargs after it the
\* items of new_kwargs (none when it is empty), and the args and kwargs
\* made before the rule began are as they were: in x (e -> f), the step
\* that invokes f leaves what x made, followed by what f returned for e.
C26_ActionReplacesSlice ==
    [][(/\ StartExpr.op = "SEQ"
        /\ Len(StartExpr.kids) = 2
        /\ StartExpr.kids[2].op = "RUL"
        /\ ~Raises(StartExpr.kids[2].action)
        /\ Len(calls') = Len(calls) + 1
        /\ calls'[Len(calls')].action = StartExpr.kids[2].action)
       => LET before == Eval(grammar, StartExpr.kids[1], s, start)
              body == Eval(grammar, StartExpr.kids[2].kids[1], s,
                           before.end)
              new == Call(StartExpr.kids[2].action, s, before.end, body.end,
                          body.args, Dict(body.kwargs))
          IN  /\ args' = before.args \o new.args
              /\ kwargs' = before.kwargs \o new.kwargs]_vars

\* C27: when a name has been bound more than once in a successful match,
\* the mapping the caller gets holds for it the value bound last, and each
\* other name its own last value.
C27_LastBindingWins ==
    (/\ status = "done"
     /\ retval >= 0
     /\ \E i, j \in 1..Len(kwargs) : i < j /\ kwargs[i].name = kwargs[j].name)
    => /\ \A k \in 1..Len(kwargs) :
             (\A j \in (k + 1)..Len(kwargs) : kwargs[j].name # kwargs[k].name)
             => \E m \in 1..Len(MatchValue.kwargs) :
                   MatchValue.kwargs[m] = kwargs[k]
       /\ Len(MatchValue.kwargs)
          = Cardinality({kwargs[k].name : k \in 1..Len(kwargs)})
       /\ MatchValue.kwargs = Dict(Expected.kwargs)

\* y:~. (x:~.)* on 'bab' bound y once and x twice: the caller finds
\* y = 'b' and x = 'b', the value x was given last.
C27_Witness ==
    /\ status = "done"
    /\ grammar = G1(SEQ(<<BND("y", CAP(DOT)), STR(BND("x", CAP(DOT)))>>))
    /\ s = <<"b", "a", "b">>
    /\ kwargs = <<[name |-> "y", value |-> <<"b">>],
                  [name |-> "x", value |-> <<"a">>],
                  [name |-> "x", value |-> <<"b">>]>>
    /\ MatchValue.kwargs = <<[name |-> "y", value |-> <<"b">>],
                             [name |-> "x", value |-> <<"b">>]>>

\* C28: two matches on one parser, their steps interleaved in any order,
\* each return what they return alone; the program is never written: it
\* stays the one the compiler returned.
C28_SharedProgram ==
    /\ pi = _make_program(grammar).pis
    /\ status = "done"
       => /\ retval = Expected.end
          /\ args = Expected.args
          /\ kwargs = Expected.kwargs
    /\ \A o \in other :
          o.status = "done"
          => LET alone == Eval(grammar, StartExpr, o.s, o.start)
             IN  /\ o.retval = alone.end
                 /\ o.args = alone.args
                 /\ o.kwargs = alone.kwargs

\* Both matches of ("ab" / "a") "a"* have returned, the one on 'aba' and
\* the one on 'aaa', each with 3.
C28_Witness ==
    /\ grammar = G1(SEQ(<<CHC(<<AB, A>>), STR(A)>>))
    /\ status = "done"
    /\ s = <<"a", "b", "a">>
    /\ retval = 3
    /\ \E o \in other :
          /\ o.status = "done"
          /\ o.s = <<"a", "a", "a">>
          /\ o.retval = 3
          /\ o.last.op = "match"

\* C29: actions are invoked in the left-to-right, depth-first order of the
\* operator tree, and the action of a rule only once the whole expression
\* of that rule has matched: in (e1 -> f) (e2 -> g) and in
\* (x (e -> f) z) -> g, g is never invoked unless f was invoked before it,
\* each invocation spans a match of its rule's expression, and a
\* successful match has invoked f, then g.
C29_ActionOrder ==
    LET e == StartExpr
        pair == /\ e.op = "SEQ" /\ Len(e.kids) = 2
                /\ e.kids[1].op = "RUL" /\ e.kids[1].action = Func("f")
                /\ e.kids[2].op = "RUL" /\ e.kids[2].action = Func("g")
        nest == /\ e.op = "RUL" /\ e.action = Func("g")
                /\ e.kids[1].op = "SEQ" /\ Len(e.kids[1].kids) = 3
                /\ e.kids[1].kids[2].op = "RUL"
                /\ e.kids[1].kids[2].action = Func("f")
        inner == IF pair THEN e.kids[1].kids[1]
                 ELSE e.kids[1].kids[2].kids[1]
        outer == IF pair THEN e.kids[2].kids[1] ELSE e.kids[1]
    IN  (status # "error" /\ (pair \/ nest))
        => /\ \A i \in 1..Len(calls) :
                 /\ calls[i].action = Func("g")
                    => /\ \E j \in 1..(i - 1) : calls[j].action = Func("f")
                       /\ Eval(grammar, outer, s, calls[i].start).end
                          = calls[i].end
                 /\ calls[i].action = Func("f")
                    => Eval(grammar, inner, s, calls[i].start).end
                       = calls[i].end
           /\ (status = "done" /\ retval >= 0)
              => /\ Len(calls) = 2
                 /\ calls[1].action = Func("f")
                 /\ calls[2].action = Func("g")

\* C30: at the end of the input . fails; there, and so on the empty
\* input, .* succeeds where it started with no emitted values and .+
\* fails.
C30_DotAtEnd ==
    (status = "done" /\ start = Len(s))
    => /\ StartExpr = DOT => retval < 0 /\ MatchValue = None
       /\ StartExpr \in {STR(DOT), STR(CAP(DOT))}
          => retval = start /\ args = << >> /\ kwargs = << >>
       /\ StartExpr = PLS(DOT) => retval < 0 /\ MatchValue = None

\* .* has been matched against the empty input and ended at position 0.
C30_Witness ==
    /\ StartExpr = STR(DOT)
    /\ s = << >>
    /\ status = "done"
    /\ retval = 0
    /\ last.op = "match"

\* Whether character c belongs to the characters and ranges of a class
\* scanner.
ClassHas(sc, c) ==
    \/ PyIn(c, sc.chars)
    \/ \E k \in 1..(Len(sc.ranges) \div 2) :
          Ord(sc.ranges[2 * k - 1]) <= Ord(c) /\ Ord(c) <= Ord(sc.ranges[2 * k])

\* C31: a class scanner run at a position of the input consumes at most
\* maxcount characters when maxcount >= 0 and succeeds iff it consumed at
\* least mincount: when the character at pos does not match or the input
\* is exhausted it succeeds at pos with mincount 0 and fails with mincount
\* 1, and when the character matches it succeeds past pos.
C31_ClassCounts ==
    [][(/\ Running
        /\ Fetch(pi, idx).opcode = "SCAN"
        /\ Fetch(pi, idx).scanner.kind = "Class"
        /\ 0 <= pos /\ pos <= Len(s)
        /\ last'.op = "SCAN")
       => LET sc == Fetch(pi, idx).scanner
              hit == /\ pos < Len(s)
                     /\ ClassHas(sc, s[pos + 1]) # sc.negate
          IN  /\ status' # "raising"
              /\ ~last'.failed
                 => /\ pos' - pos >= sc.mincount
                    /\ pos' >= pos
                    /\ sc.maxcount >= 0 => pos' - pos <= sc.maxcount
              /\ last'.failed => sc.mincount > 0
              /\ ~hit => /\ sc.mincount = 0 => ~last'.failed /\ pos' = pos
                         /\ sc.mincount = 1 => last'.failed
              /\ (hit /\ sc.mincount <= 1 /\ sc.maxcount # 0)
                 => ~last'.failed /\ pos' > pos]_vars

\* [a-a]+ has been scanned on 'b' and failed; [a-a]* has been scanned on
\* 'b' and succeeded at 0.
C31_Witness ==
    /\ StartExpr = PLS(CLS(<<<<"a", "a">>>>, FALSE))
    /\ pi[2].scanner.mincount = 1
    /\ s = <<"b">>
    /\ last.op = "SCAN"
    /\ last.failed

\* C32: a literal x scanned at a position pos of the input succeeds at
\* pos + |x| when the |x| characters from pos on are those of x and fails
\* otherwise, in particular when fewer than |x| characters are left; the
\* empty literal succeeds at every position 0..N, at that position.
C32_LiteralScan ==
    [][(/\ Running
        /\ Fetch(pi, idx).opcode = "SCAN"
        /\ Fetch(pi, idx).scanner.kind = "Literal"
        /\ 0 <= pos /\ pos <= Len(s)
        /\ last'.op = "SCAN")
       => LET x == Fetch(pi, idx).scanner.x
              equal == /\ pos + Len(x) <= Len(s)
                       /\ \A k \in 1..Len(x) : s[pos + k] = x[k]
          IN  /\ status' = "raising" => Raises(Fetch(pi, idx).action)
              /\ equal => ~last'.failed /\ pos' = pos + Len(x)
              /\ ~equal => last'.failed
              /\ pos + Len(x) > Len(s) => last'.failed
              /\ x = << >> => ~last'.failed /\ pos' = pos]_vars

\* The empty literal has been matched at the end of 'ab'.
C32_Witness ==
    /\ StartExpr = LIT(<< >>)
    /\ s = <<"a", "b">>
    /\ start = 2
    /\ last.op = "SCAN"
    /\ ~last.failed
    /\ pos = 2

\* C33: a repetition loops without stack growth: every UPDATE executes with
\* the backtrack frame of its own loop on top (the frame the loop's BRANCH
\* pushed, which resumes after the UPDATE), at the depth the stack had
\* right after that BRANCH, and rewrites pos, argidx and kwidx of that
\* frame in place, pushing and popping nothing.
C33_LoopNoGrowth ==
    [][(/\ Running
        /\ Fetch(pi, idx).opcode = "UPDATE"
        /\ last'.op = "UPDATE")
       => LET n == Len(state)
          IN  /\ state[n].opidx = idx + 1
              /\ state[n].pos >= 0
              /\ state[n].mark = -1
              /\ state' = [state EXCEPT
                             ![n] = State(idx + 1, pos, -1, Len(args),
                                          Len(kwargs))]
              /\ (/\ Len(grammar.defs) = 1
                  /\ StartExpr.op \in {"STR", "PLS"}
                  /\ idx = Len(pi) - 3)
                 => n = 3]_vars

\* C34: a step that fails pops every frame above the most recently pushed
\* backtrack frame and that frame too, which catches the failure: what is
\* left is the stack under that frame, as it was when the frame was pushed,
\* and no frame pushed since survives.  (FAILTWICE first drops the
\* backtrack frame of its own lookahead.  When the frame that catches the
\* failure is the last one, _match returns a fresh frame.)
C34_UnwindToBranch ==
    [][(Running /\ last'.failed)
       => LET st == IF Fetch(pi, idx).opcode = "FAILTWICE"
                    THEN pop(state) ELSE state
              ks == {k \in 1..Len(st) : IsBacktrackFrame(st[k])}
          IN  /\ ks # {}
              /\ status' # "crash"
              /\ \E k \in ks :
                    /\ \A j \in ks : j <= k
                    /\ last'.caught = st[k]
                    /\ IF k > 1 THEN state' = SubSeq(st, 1, k - 1)
                       ELSE /\ status' = "returned"
                            /\ state' = <<State(0, -1, -1, 0, 0)>>]_vars

\* A mark frame: pushed for a marking instruction, with the position the
\* capture or the action starts at and no position to return to.
IsMarkFrame(f) == f.mark >= 0 /\ f.pos = -1

\* C35: every step that consumes a frame finds on top the kind of frame it
\* was compiled for: COMMIT, UPDATE, RESTORE and FAILTWICE a backtrack
\* frame, RETURN a call frame or the success frame of match (no position,
\* no mark), and the capture and the action of an instruction that did not
\* fail a mark frame each.
C35_FrameKinds ==
    [][(Running /\ last'.op = Fetch(pi, idx).opcode)
       => LET instr == Fetch(pi, idx)
              st == Marked.state
              below == IF instr.capturing THEN pop(st) ELSE st
          IN  /\ instr.opcode \in {"COMMIT", "UPDATE", "RESTORE", "FAILTWICE"}
                 => IsBacktrackFrame(Top(st))
              /\ instr.opcode = "RETURN"
                 => Top(st).pos = -1 /\ Top(st).mark = -1
              /\ (instr.opcode \in {"SCAN", "NOOP"} /\ ~last'.failed)
                 => /\ instr.capturing => IsMarkFrame(Top(st))
                    /\ instr.action # NoAction
                       => below # << >> /\ IsMarkFrame(Top(below))]_vars

RECURSIVE IsPlain(_)
\* An operator tree without captures, binds and actions.
IsPlain(e) ==
    /\ e.op \notin {"CAP", "BND"}
    /\ e.op = "RUL" => e.action = NoAction
    /\ \A k \in 1..Len(e.kids) : IsPlain(e.kids[k])

\* The number of instructions the compiler emits for an expression.
Size(e) == Len(_parsing_instructions(e, << >>).pis)

RECURSIVE FramesAt(_, _, _)
\* The return addresses of the backtrack frames that the BRANCH
\* instructions of the block of plain expression e, compiled at address a,
\* have pushed and that are still on the stack when the instruction at
\* address k (a <= k <= a + Size(e)) is about to run, oldest first: those
\* of the operators whose operand is being matched at k.  None at a and
\* none at a + Size(e), the address a successful match of e leaves for.
\* (A choice is laid out as BRANCH, first alternative, COMMIT, the rest.)
FramesAt(e, k, a) ==
    LET n == IF e.kids = << >> THEN 0 ELSE Size(e.kids[1])
    IN  CASE Size(e) = 1 -> << >>
          [] e.op \in {"OPT", "STR", "NOT"} ->
                IF a < k /\ k <= a + 1 + n
                THEN <<a + n + 2>> \o FramesAt(e.kids[1], k, a + 1)
                ELSE << >>
          [] e.op = "PLS" ->
                IF k <= a + n THEN FramesAt(e.kids[1], k, a)
                ELSE IF k <= a + 2 * n + 1
                THEN <<a + 2 * n + 2>> \o FramesAt(e.kids[1], k, a + n + 1)
                ELSE << >>
          [] e.op = "AND" ->
                IF a < k /\ k <= a + 1 + n
                THEN <<a + n + 2>> \o FramesAt(e.kids[1], k, a + 1)
                ELSE << >>
          [] e.op = "SEQ" ->
                IF k <= a + n THEN FramesAt(e.kids[1], k, a)
                ELSE FramesAt(SEQ(Tail(e.kids)), k, a + n)
          [] e.op = "CHC" ->
                IF Len(e.kids) = 1 THEN FramesAt(e.kids[1], k, a)
                ELSE IF k <= a THEN << >>
                ELSE IF k <= a + 1 + n
                THEN <<a + n + 2>> \o FramesAt(e.kids[1], k, a + 1)
                ELSE FramesAt(CHC(Tail(e.kids)), k, a + n + 2)
          [] e.op = "RUL" -> FramesAt(e.kids[1], k, a)
          [] OTHER -> << >>

\* C36: in a match with a grammar without captures, binds and actions args
\* and kwargs are empty in every state; the stack at every address of the
\* start expression's block is the two frames of match and, above them,
\* the backtrack frames of the operators whose operand is being matched
\* there, so that the stack a sub-expression's block is left with by
\* success is the stack it was entered with; and the RETURN of a rule
\* finds the frame its block was entered with on top.
C36_PlainBlocks ==
    (/\ status # "error"
     /\ \A k \in 1..Len(grammar.defs) : IsPlain(grammar.defs[k].expr))
    => /\ args = << >>
       /\ kwargs = << >>
       /\ (/\ Running
           /\ Len(grammar.defs) = 1
           /\ SymNames(StartExpr) = {}
           /\ ~Uncollapsed
           /\ 1 <= idx /\ idx <= Len(pi) - 2)
          => LET F == FramesAt(StartExpr, idx, 1)
             IN  /\ Len(state) = 2 + Len(F)
                 /\ state[1] = FailureFrame
                 /\ state[2] = State(-1, -1, -1, 0, 0)
                 /\ \A j \in 1..Len(F) :
                       /\ state[2 + j].opidx = F[j]
                       /\ state[2 + j].pos >= 0
                       /\ state[2 + j].mark = -1
                       /\ state[2 + j].argidx = 0
                       /\ state[2 + j].kwidx = 0
       /\ (Running /\ idx >= 0 /\ Fetch(pi, idx).opcode = "RETURN")
          => \/ Len(state) = 2 /\ Top(state) = State(-1, -1, -1, 0, 0)
             \/ /\ Len(state) > 2
                /\ Top(state).opidx > 0
                /\ Fetch(pi, Top(state).opidx - 1).opcode = "CALL"
                /\ Top(state) = State(Top(state).opidx, -1, -1, -1, -1)

\* ("ab" / "a") "b" on 'ab': the first alternative has matched and the
\* block of the choice has been left, with the stack it was entered with.
C36_Witness ==
    /\ StartExpr = SEQ(<<CHC(<<AB, A>>), B>>)
    /\ s = <<"a", "b">>
    /\ start = 0
    /\ status = "run"
    /\ idx = 5
    /\ pos = 2
    /\ Len(state) = 2

\* C37: pop is never applied to an empty stack and no field of a frame is
\* read through one inside _match: while the loop runs the failure frame of
\* match is at the bottom of the stack, every failure is caught by a frame
\* with pos >= 0, and no step of the machine finds the stack empty where
\* it needs a frame.
C37_NoEmptyPop ==
    /\ status = "run" => state # << >> /\ state[1] = FailureFrame
    /\ last.failed => last.caught.pos >= 0
    /\ status = "crash" => last.op = "match"

\* "a" on 'b': the SCAN has failed, the unwinding has popped the success
\* frame and the failure frame has caught the failure.
C37_Witness ==
    /\ StartExpr = A
    /\ s = <<"b">>
    /\ status = "returned"
    /\ last.op = "SCAN"
    /\ last.failed
    /\ last.caught = FailureFrame

\* C38: every instruction fetch finds idx at an address of the program,
\* 0..len(pi)-1, or at -1; -1 only right after RETURN has popped the
\* success frame of match, and the instruction fetched there is the final
\* PASS; and every BRANCH, COMMIT, UPDATE and RESTORE jumps to an address
\* inside the rule body that holds it or to that body's RETURN (no RETURN
\* lies between the instruction and its target, and the target is not the
\* FAIL at address 0).
C38_AddressesInRange ==
    /\ status = "run"
       => /\ -1 <= idx /\ idx < Len(pi)
          /\ idx = -1
             => /\ last.op = "RETURN"
                /\ state = <<FailureFrame>>
                /\ Fetch(pi, idx).opcode = "PASS"
                /\ pi[Len(pi)].opcode = "PASS"
    /\ \A k \in 1..Len(pi) :
          pi[k].opcode \in {"BRANCH", "COMMIT", "UPDATE", "RESTORE"}
          => LET target == k + pi[k].oploc
             IN  /\ 2 <= target /\ target < Len(pi)
                 /\ \A j \in 1..Len(pi) :
                       pi[j].opcode = "RETURN"
                       => /\ ~(k <= j /\ j < target)
                          /\ ~(target <= j /\ j < k)

\* "a" on 'a': the RETURN of the start rule has popped the success frame
\* and the machine is about to fetch pi[-1], the PASS.
C38_Witness ==
    /\ StartExpr = A
    /\ s = <<"a">>
    /\ status = "run"
    /\ idx = -1
    /\ last.op = "RETURN"
    /\ pos = 1

====
